---- MODULE Spec2Model ----
(***************************************************************************)
(* Model of the authorization layer of the OpenAuth template:              *)
(*   - RateLimiter (fixed-window counter)          src/src/client-sdk.ts   *)
(*   - extractToken / validateToken / requireAuth / requireRole /          *)
(*     optionalAuth and the handler wrappers        src/src/client-sdk.ts   *)
(*   - AuthClient (browser token lifecycle)        src/src/client-sdk.ts   *)
(*   - the example worker and hasPermission        src/unnamed             *)
(* The specifications share the variables. Each one moves its own          *)
(* component and leaves the others in their initial state.                 *)
(***************************************************************************)
EXTENDS Integers, Sequences, FiniteSets, TLC

VARIABLES
    \* ---- RateLimiter ----
    limit,        \* RateLimiter.limit (constructor argument)
    windowMs,     \* RateLimiter.windowMs (constructor argument)
    requests,     \* RateLimiter.requests : Map key -> {count, resetTime}
    rlNow,        \* Date.now() as seen by the limiter
    checkLog,     \* history of check() calls: <<[key, time, ret]>>
    rlRet,        \* what the last limiter call returned
    inFlight,     \* requests of the serving instance suspended at an await
    \* ---- authorization gate (one inbound request at a time) ----
    gPc,          \* "idle" | "validating" (awaiting /userinfo) | "done"
    gReq,         \* the call being served: mode, Authorization header, role
    gResp,        \* the /userinfo response received, NoResp if none
    gCalls,       \* /userinfo requests issued for this call
    gOut,         \* outcome of the call
    \* ---- AuthClient (one browser tab) ----
    lsTokens,     \* localStorage['openauth_tokens']
    lsExpires,    \* localStorage['openauth_token_expires']
    lsUser,       \* localStorage['openauth_user']
    lsState,      \* localStorage['openauth_state']
    authorizeUrl, \* window.location.href as set by login()
    cNow,         \* Date.now() as seen by the client
    procs,        \* the SDK calls in progress, each at one of its awaits
    loggedOut     \* history: logout() has returned and no handleCallback()
                  \* has been started since

limiterVars == <<limit, windowMs, requests, rlNow, checkLog, rlRet, inFlight>>
gateVars == <<gPc, gReq, gResp, gCalls, gOut>>
storageVars == <<lsTokens, lsExpires, lsUser, lsState>>
clientVars == <<lsTokens, lsExpires, lsUser, lsState, authorizeUrl, cNow, procs,
                loggedOut>>

vars == <<limit, windowMs, requests, rlNow, checkLog, rlRet, inFlight,
          gPc, gReq, gResp, gCalls, gOut,
          lsTokens, lsExpires, lsUser, lsState, authorizeUrl, cNow, procs,
          loggedOut>>

Max(a, b) == IF a >= b THEN a ELSE b

(***************************************************************************)
(* RateLimiter                                                             *)
(***************************************************************************)
MaxLimit == 2       \* limits 0..MaxLimit are tried
MaxWindow == 2      \* windowMs 1..MaxWindow are tried
MaxTime == 4        \* the limiter's clock runs 0..MaxTime
MaxLog == 4         \* at most MaxLog check() calls are recorded

Keys == {"ip1", "ip2"}

NoRet == [kind |-> "none"]

\* Map.set(key, value)
MapSet(m, k, v) == [x \in (DOMAIN m) \cup {k} |-> IF x = k THEN v ELSE m[x]]

\* RateLimiter.check with the limit test inverted to "count > limit"
check_offByOne(reqs, key, now) ==
    IF key \notin DOMAIN reqs \/ now > reqs[key].resetTime
    THEN [map |-> MapSet(reqs, key, [count |-> 1, resetTime |-> now + windowMs]),
          ret |-> TRUE]
    ELSE IF reqs[key].count > limit
         THEN [map |-> reqs, ret |-> FALSE]
         ELSE [map |-> [reqs EXCEPT ![key].count = @ + 1], ret |-> TRUE]

\* RateLimiter.check without the "count >= limit" denial
check_noDeny(reqs, key, now) ==
    IF key \notin DOMAIN reqs \/ now > reqs[key].resetTime
    THEN [map |-> MapSet(reqs, key, [count |-> 1, resetTime |-> now + windowMs]),
          ret |-> TRUE]
    ELSE [map |-> [reqs EXCEPT ![key].count = @ + 1], ret |-> TRUE]

\* RateLimiter.check that admits a call to an open window without writing the
\* raised count back (the write of a concurrent call is lost)
check_lostIncrement(reqs, key, now) ==
    IF key \notin DOMAIN reqs \/ now > reqs[key].resetTime
    THEN [map |-> MapSet(reqs, key, [count |-> 1, resetTime |-> now + windowMs]),
          ret |-> TRUE]
    ELSE IF reqs[key].count >= limit
         THEN [map |-> reqs, ret |-> FALSE]
         ELSE [map |-> reqs, ret |-> TRUE]

\* RateLimiter.check that drops the records of the other keys when it starts
\* a window
check_evictOthers(reqs, key, now) ==
    IF key \notin DOMAIN reqs \/ now > reqs[key].resetTime
    THEN [map |-> [k \in {key} |-> [count |-> 1, resetTime |-> now + windowMs]],
          ret |-> TRUE]
    ELSE IF reqs[key].count >= limit
         THEN [map |-> reqs, ret |-> FALSE]
         ELSE [map |-> [reqs EXCEPT ![key].count = @ + 1], ret |-> TRUE]

\* RateLimiter.check that moves the reset time with every call it admits
check_slidingReset(reqs, key, now) ==
    IF key \notin DOMAIN reqs \/ now > reqs[key].resetTime
    THEN [map |-> MapSet(reqs, key, [count |-> 1, resetTime |-> now + windowMs]),
          ret |-> TRUE]
    ELSE IF reqs[key].count >= limit
         THEN [map |-> reqs, ret |-> FALSE]
         ELSE [map |-> [reqs EXCEPT ![key] = [count |-> @.count + 1,
                                              resetTime |-> now + windowMs]],
               ret |-> TRUE]

\* RateLimiter.check that already starts a new window at the reset time
check_resetAtBoundary(reqs, key, now) ==
    IF key \notin DOMAIN reqs \/ now >= reqs[key].resetTime
    THEN [map |-> MapSet(reqs, key, [count |-> 1, resetTime |-> now + windowMs]),
          ret |-> TRUE]
    ELSE IF reqs[key].count >= limit
         THEN [map |-> reqs, ret |-> FALSE]
         ELSE [map |-> [reqs EXCEPT ![key].count = @ + 1], ret |-> TRUE]

\* RateLimiter.check that counts the calls it denies too
check_countDenied(reqs, key, now) ==
    IF key \notin DOMAIN reqs \/ now > reqs[key].resetTime
    THEN [map |-> MapSet(reqs, key, [count |-> 1, resetTime |-> now + windowMs]),
          ret |-> TRUE]
    ELSE IF reqs[key].count >= limit
         THEN [map |-> [reqs EXCEPT ![key].count = @ + 1], ret |-> FALSE]
         ELSE [map |-> [reqs EXCEPT ![key].count = @ + 1], ret |-> TRUE]

\* RateLimiter.check(identifier): the new map and the returned boolean
check(reqs, key, now) ==
    IF key \notin DOMAIN reqs \/ now > reqs[key].resetTime
    THEN [map |-> MapSet(reqs, key, [count |-> 1, resetTime |-> now + windowMs]),
          ret |-> TRUE]
    ELSE IF reqs[key].count >= limit
         THEN [map |-> reqs, ret |-> FALSE]
         ELSE [map |-> [reqs EXCEPT ![key].count = @ + 1], ret |-> TRUE]

\* RateLimiter.getRemainingTime without the Math.max(0, ...) clamp
getRemainingTime_noClamp(reqs, key, now) ==
    IF key \notin DOMAIN reqs THEN 0 ELSE reqs[key].resetTime - now

\* RateLimiter.getRemainingTime(identifier)
getRemainingTime(reqs, key, now) ==
    IF key \notin DOMAIN reqs THEN 0 ELSE Max(0, reqs[key].resetTime - now)

\* a caller invokes rateLimiter.check(key)
Check(key) ==
    /\ Len(checkLog) < MaxLog
    /\ LET r == check(requests, key, rlNow) IN
        /\ requests' = r.map
        /\ rlRet' = [kind |-> "check", key |-> key, ret |-> r.ret]
        /\ checkLog' = Append(checkLog, [key |-> key, time |-> rlNow, ret |-> r.ret])
    /\ UNCHANGED <<limit, windowMs, rlNow, inFlight>>
    /\ UNCHANGED <<gateVars, clientVars>>

\* a caller invokes rateLimiter.getRemainingTime(key)
GetRemainingTime(key) ==
    /\ rlRet' = [kind |-> "remaining", key |-> key,
                 ret |-> getRemainingTime(requests, key, rlNow)]
    /\ UNCHANGED <<limit, windowMs, requests, rlNow, checkLog, inFlight>>
    /\ UNCHANGED <<gateVars, clientVars>>

\* Date.now() advances
LimiterTick ==
    /\ rlNow < MaxTime
    /\ rlNow' = rlNow + 1
    /\ UNCHANGED <<limit, windowMs, requests, checkLog, rlRet, inFlight>>
    /\ UNCHANGED <<gateVars, clientVars>>

NextLimiter ==
    \/ \E key \in Keys : Check(key)
    \/ \E key \in Keys : GetRemainingTime(key)
    \/ LimiterTick

(***************************************************************************)
(* Authorization gate: extractToken, validateToken, requireAuth,           *)
(* requireRole, optionalAuth and the handler wrappers                      *)
(***************************************************************************)
MaxHeaderLen == 2   \* Authorization header values of up to MaxHeaderLen symbols

\* JavaScript null / undefined, and a non-null string made of symbols
Null == [null |-> TRUE]
Str(v) == [null |-> FALSE, s |-> v]
Undefined == "<undefined>"

\* a header value is a sequence of symbols; "Bearer " is the scheme prefix and
\* the others stand for pieces of credential text
HeaderSyms == {"Bearer ", "tokA", "tokB"}
HeaderValues == UNION {[1..n -> HeaderSyms] : n \in 0..MaxHeaderLen}
Headers == {Null} \cup {Str(v) : v \in HeaderValues}

RoleStrings == {"admin", "vendor", "customer", "guest"}
UserRoles == RoleStrings \cup {Undefined}
Users == {[null |-> FALSE, id |-> "u1", role |-> r] : r \in UserRoles}

\* what the identity endpoint can answer: the call fails, a non-success
\* status, or a success whose body is an identity, JSON null or not JSON
NoResp == [kind |-> "none"]
Responses ==
    {[kind |-> "netfail"]}
    \cup {[kind |-> "http", ok |-> FALSE, status |-> st, body |-> Null] : st \in {401, 500}}
    \cup {[kind |-> "http", ok |-> TRUE, status |-> 200, body |-> b] :
            b \in Users \cup {Null, [null |-> FALSE, badJson |-> TRUE]}}

IsBadJson(b) == ~b.null /\ "badJson" \in DOMAIN b

\* String.prototype.replace(pattern, ''): drops the first occurrence
ReplaceFirst(v, sym) ==
    IF \E i \in 1..Len(v) : v[i] = sym
    THEN LET i == CHOOSE i \in 1..Len(v) :
                    v[i] = sym /\ \A j \in 1..(i - 1) : v[j] # sym
         IN  SubSeq(v, 1, i - 1) \o SubSeq(v, i + 1, Len(v))
    ELSE v

\* extractToken that returns the header value as it is
extractToken_keepScheme(authHeader) ==
    IF authHeader.null \/ authHeader.s = << >> THEN Null ELSE authHeader

\* extractToken(request), on the request's Authorization header
extractToken(authHeader) ==
    IF authHeader.null \/ authHeader.s = << >>
    THEN Null
    ELSE LET token == ReplaceFirst(authHeader.s, "Bearer ")
         IN  IF token = << >> THEN Null ELSE Str(token)

\* validateToken without its try/catch
validateToken_noCatch(resp) ==
    IF resp.kind # "http" THEN [threw |-> TRUE, user |-> Null]
    ELSE IF ~resp.ok THEN [threw |-> FALSE, user |-> Null]
    ELSE IF IsBadJson(resp.body) THEN [threw |-> TRUE, user |-> Null]
    ELSE [threw |-> FALSE, user |-> resp.body]

\* validateToken whose catch block rethrows a failed fetch
validateToken_rethrowNetwork(resp) ==
    IF resp.kind # "http" THEN [threw |-> TRUE, user |-> Null]
    ELSE IF ~resp.ok THEN [threw |-> FALSE, user |-> Null]
    ELSE IF IsBadJson(resp.body) THEN [threw |-> FALSE, user |-> Null]
    ELSE [threw |-> FALSE, user |-> resp.body]

\* validateToken(token, authServerUrl), on the response its fetch receives
validateToken(resp) ==
    IF resp.kind # "http" THEN [threw |-> FALSE, user |-> Null]
    ELSE IF ~resp.ok THEN [threw |-> FALSE, user |-> Null]
    ELSE IF IsBadJson(resp.body) THEN [threw |-> FALSE, user |-> Null]
    ELSE [threw |-> FALSE, user |-> resp.body]

\* AuthResult {user, error?, status}; a thrown exception is [threw |-> TRUE]
AuthResult(u, e, st) == [threw |-> FALSE, user |-> u, error |-> e, status |-> st]
Thrown == [threw |-> TRUE]
NoTokenError == [text |-> "No authorization token provided"]
InvalidTokenError == [text |-> "Invalid or expired token"]
RoleError(requiredRole) == [text |-> "Required role: ", role |-> requiredRole]
NoError == [text |-> Undefined]

\* requireAuth that gives no reason when the validator returns no user
requireAuth_noReason(authHeader, resp) ==
    LET token == extractToken(authHeader) IN
    IF token.null
    THEN AuthResult(Null, NoTokenError, 401)
    ELSE LET v == validateToken(resp) IN
         IF v.threw THEN Thrown
         ELSE IF v.user.null
              THEN AuthResult(Null, NoError, 401)
              ELSE AuthResult(v.user, NoError, 200)

\* requireAuth that passes the validator's answer on unchecked
requireAuth_noUserCheck(authHeader, resp) ==
    LET token == extractToken(authHeader) IN
    IF token.null
    THEN AuthResult(Null, NoTokenError, 401)
    ELSE LET v == validateToken(resp) IN
         IF v.threw THEN Thrown
         ELSE AuthResult(v.user, NoError, 200)

\* requireAuth(request, authServerUrl)
requireAuth(authHeader, resp) ==
    LET token == extractToken(authHeader) IN
    IF token.null
    THEN AuthResult(Null, NoTokenError, 401)
    ELSE LET v == validateToken(resp) IN
         IF v.threw THEN Thrown
         ELSE IF v.user.null
              THEN AuthResult(Null, InvalidTokenError, 401)
              ELSE AuthResult(v.user, NoError, 200)

\* roleHierarchy[role] || 0 on the object literal {admin: 3, vendor: 2,
\* customer: 1}: a number for an own key, 0 for a name that is not a property,
\* and for a name the literal inherits from Object.prototype the inherited
\* function or object, which is truthy. Such a value is kept with the place
\* that the string ToPrimitive gives for it takes in code-unit order:
\* "[object Object]" < "function Object() {...}" < "function toString() {...}"
Num(n) == [num |-> TRUE, n |-> n]
Obj(order) == [num |-> FALSE, order |-> order]
RoleLevel(role) ==
    CASE role = "admin" -> Num(3)
      [] role = "vendor" -> Num(2)
      [] role = "customer" -> Num(1)
      [] role = "__proto__" -> Obj(1)
      [] role = "constructor" -> Obj(2)
      [] role = "toString" -> Obj(3)
      [] OTHER -> Num(0)

\* a >= b in JavaScript: numbers compare as numbers, a number against a
\* function or object is a comparison with NaN (false), two functions or
\* objects compare as the strings they convert to
GreaterEq(a, b) ==
    IF a.num /\ b.num THEN a.n >= b.n
    ELSE IF a.num \/ b.num THEN FALSE
    ELSE a.order >= b.order

\* hasPermission(userRole, requiredRole)
hasPermission(userRole, requiredRole) ==
    GreaterEq(RoleLevel(userRole), RoleLevel(requiredRole))

\* requireRole that tests the role before it looks at the authentication
\* failure (the role of no user is not the required role)
requireRole_roleFirst(authHeader, resp, requiredRole) ==
    LET authResult == requireAuth(authHeader, resp) IN
    IF authResult.threw THEN Thrown
    ELSE IF authResult.user.null \/ authResult.user.role # requiredRole
         THEN AuthResult(Null, RoleError(requiredRole), 403)
         ELSE authResult

\* requireRole that compares by the role hierarchy
requireRole_hierarchy(authHeader, resp, requiredRole) ==
    LET authResult == requireAuth(authHeader, resp) IN
    IF authResult.threw THEN Thrown
    ELSE IF authResult.user.null THEN authResult
    ELSE IF ~hasPermission(authResult.user.role, requiredRole)
         THEN AuthResult(Null, RoleError(requiredRole), 403)
         ELSE authResult

\* requireRole(request, authServerUrl, requiredRole)
requireRole(authHeader, resp, requiredRole) ==
    LET authResult == requireAuth(authHeader, resp) IN
    IF authResult.threw THEN Thrown
    ELSE IF authResult.user.null THEN authResult
    ELSE IF authResult.user.role # requiredRole
         THEN AuthResult(Null, RoleError(requiredRole), 403)
         ELSE authResult

\* optionalAuth that rejects like requireAuth
optionalAuth_strict(authHeader, resp) ==
    LET token == extractToken(authHeader) IN
    IF token.null
    THEN AuthResult(Null, NoError, 200)
    ELSE LET v == validateToken(resp) IN
         IF v.threw THEN Thrown
         ELSE IF v.user.null
              THEN AuthResult(Null, InvalidTokenError, 401)
              ELSE AuthResult(v.user, NoError, 200)

\* optionalAuth(request, authServerUrl)
optionalAuth(authHeader, resp) ==
    LET token == extractToken(authHeader) IN
    IF token.null
    THEN AuthResult(Null, NoError, 200)
    ELSE LET v == validateToken(resp) IN
         IF v.threw THEN Thrown
         ELSE AuthResult(v.user, NoError, 200)

\* outcome of a wrapped handler: the decision the wrapper obtained, whether
\* the downstream handler ran and with which user, and the Response returned
Downstream == [kind |-> "downstream"]
ErrorResponse(authResult) ==
    [kind |-> "error", status |-> authResult.status,
     body |-> [error |-> authResult.error],
     headers |-> {<<"Content-Type", "application/json">>}]
Wrapped(authResult, called, user, response) ==
    [threw |-> FALSE, authResult |-> authResult, handlerCalled |-> called,
     handlerUser |-> user, response |-> response]
WrappedThrown ==
    [threw |-> TRUE, authResult |-> Thrown, handlerCalled |-> FALSE,
     handlerUser |-> Null, response |-> NoResp]

\* createProtectedHandler whose wrapper forgets to return on a failed decision
createProtectedHandler_noGuard(authHeader, resp) ==
    LET authResult == requireAuth(authHeader, resp) IN
    IF authResult.threw THEN WrappedThrown
    ELSE Wrapped(authResult, TRUE, authResult.user, Downstream)

\* the handler returned by createProtectedHandler(handler, authServerUrl)
createProtectedHandler(authHeader, resp) ==
    LET authResult == requireAuth(authHeader, resp) IN
    IF authResult.threw THEN WrappedThrown
    ELSE IF authResult.user.null
         THEN Wrapped(authResult, FALSE, Null, ErrorResponse(authResult))
         ELSE Wrapped(authResult, TRUE, authResult.user, Downstream)

\* the handler returned by createRoleProtectedHandler(handler, url, requiredRole)
createRoleProtectedHandler(authHeader, resp, requiredRole) ==
    LET authResult == requireRole(authHeader, resp, requiredRole) IN
    IF authResult.threw THEN WrappedThrown
    ELSE IF authResult.user.null
         THEN Wrapped(authResult, FALSE, Null, ErrorResponse(authResult))
         ELSE Wrapped(authResult, TRUE, authResult.user, Downstream)

\* the handler returned by createOptionalAuthHandler(handler, authServerUrl)
createOptionalAuthHandler(authHeader, resp) ==
    LET authResult == optionalAuth(authHeader, resp) IN
    IF authResult.threw THEN WrappedThrown
    ELSE Wrapped(authResult, TRUE, authResult.user, Downstream)

Modes == {"validateToken", "requireAuth", "requireRole", "optionalAuth",
          "protected", "roleProtected", "optionalHandler"}

\* what the call of gReq returns once the /userinfo response (if any) is in
Outcome(req, resp) ==
    CASE req.mode = "validateToken" -> validateToken(resp)
      [] req.mode = "requireAuth" -> requireAuth(req.header, resp)
      [] req.mode = "requireRole" -> requireRole(req.header, resp, req.role)
      [] req.mode = "optionalAuth" -> optionalAuth(req.header, resp)
      [] req.mode = "protected" -> createProtectedHandler(req.header, resp)
      [] req.mode = "roleProtected" ->
            createRoleProtectedHandler(req.header, resp, req.role)
      [] req.mode = "optionalHandler" -> createOptionalAuthHandler(req.header, resp)

\* the call reaches "await fetch(.../userinfo)": validateToken called
\* directly always does, the gate functions only with a token
NeedsFetch(req) == req.mode = "validateToken" \/ ~extractToken(req.header).null

NoReq == [mode |-> "none"]
NoOut == [threw |-> FALSE, none |-> TRUE]

\* a request arrives and runs up to its first await, or to its end
GateRequest(mode, header, role) ==
    /\ gPc = "idle"
    /\ LET req == [mode |-> mode, header |-> header, role |-> role] IN
        /\ gReq' = req
        /\ gResp' = NoResp
        /\ IF NeedsFetch(req)
           THEN gPc' = "validating" /\ gCalls' = 1 /\ gOut' = NoOut
           ELSE gPc' = "done" /\ gCalls' = 0 /\ gOut' = Outcome(req, NoResp)
    /\ UNCHANGED <<limiterVars, clientVars>>

\* the identity endpoint answers (or the call fails) and the call completes
GateResponse(resp) ==
    /\ gPc = "validating"
    /\ gResp' = resp
    /\ gOut' = Outcome(gReq, resp)
    /\ gPc' = "done"
    /\ UNCHANGED <<gReq, gCalls>>
    /\ UNCHANGED <<limiterVars, clientVars>>

\* the call has returned; its request, response and decision are dropped
\* and the next request can be served
GateReturn ==
    /\ gPc = "done"
    /\ gPc' = "idle"
    /\ gReq' = NoReq
    /\ gResp' = NoResp
    /\ gCalls' = 0
    /\ gOut' = NoOut
    /\ UNCHANGED <<limiterVars, clientVars>>

NextGate ==
    \/ \E mode \in Modes, header \in Headers, role \in RoleStrings :
            GateRequest(mode, header, role)
    \/ \E resp \in Responses : GateResponse(resp)
    \/ GateReturn

(***************************************************************************)
(* AuthClient: the browser-side token lifecycle.                           *)
(* An SDK call runs atomically from one network await to the next (the     *)
(* awaits on already-settled promises resume in the same task); other      *)
(* calls, login() and logout() interleave at the network awaits.           *)
(***************************************************************************)
MaxTicks == 2        \* the client's clock runs 0..MaxTicks seconds
CallCap == 3         \* per-invocation call counters saturate at CallCap
MsPerSecond == 1000  \* expires_in is in seconds, Date.now() in milliseconds

Procs == {"p1"}
Nonces == {"n1", "n2"}
Codes == {"c1"}
ClientUsers == {[null |-> FALSE, id |-> u, role |-> "customer"] : u \in {"u1", "u2"}}

\* AuthTokens as the token endpoint returns them; the refresh token may be
\* missing from the body
AuthTokens(a, r, e) ==
    [null |-> FALSE, access_token |-> a, refresh_token |-> r, expires_in |-> e]
TokenBodies ==
    {AuthTokens("a1", "r1", 1), AuthTokens("a2", "r2", 2),
     AuthTokens("a2", Undefined, 1)}

BadJson == [null |-> FALSE, badJson |-> TRUE]
NetFail == [kind |-> "netfail"]
Http(ok, st, b) == [kind |-> "http", ok |-> ok, status |-> st, body |-> b]

\* every answer of the token endpoint, the identity endpoint and an API url
TokenResponses ==
    {NetFail, Http(FALSE, 400, Null)}
    \cup {Http(TRUE, 200, b) : b \in TokenBodies \cup {BadJson}}
UserinfoResponses ==
    {NetFail, Http(FALSE, 401, Null)}
    \cup {Http(TRUE, 200, b) : b \in ClientUsers \cup {Null, BadJson}}
UrlStatuses == {200, 401, 500}

\* the URL parameters handleCallback() reads
CallbackParams ==
    [code : {Null} \cup {Str(c) : c \in Codes},
     state : {Null} \cup {Str(n) : n \in Nonces},
     error : {Null, Str("access_denied")}]
NoCallback == [code |-> Null, state |-> Null, error |-> Null]

NoneSent == "<none>"
BoolRet(b) == [kind |-> "bool", v |-> b]
UserRet(u) == [kind |-> "user", v |-> u]
RespRet(r) == [kind |-> "response", v |-> r]
ThrowRet(m) == [kind |-> "throw", v |-> m]

\* one SDK call: which method, the await it is at, and its locals
IdleProc ==
    [op |-> "none", pc |-> "idle", cb |-> NoCallback, nonceAtCall |-> Null,
     sent |-> NoneSent, nRefresh |-> 0, nToken |-> 0, nUserinfo |-> 0,
     nUrl |-> 0, refreshed |-> "none", response |-> NoResp, ret |-> NoRet]
NewProc(op) == [IdleProc EXCEPT !.op = op]
Done(P, ret) == [P EXCEPT !.pc = "done", !.ret = ret]
Inc(n) == IF n < CallCap THEN n + 1 ELSE n

\* validateState that refuses when nothing is stored
validateState_requireStored(state, storedState) ==
    [ok |-> ~storedState.null /\ state = storedState, stored |-> Null]

\* validateState that removes the stored nonce and accepts any state
validateState_acceptAny(state, storedState) ==
    [ok |-> TRUE, stored |-> Null]

\* validateState(state): compares with the stored nonce and removes it
validateState(state, storedState) ==
    [ok |-> state = storedState, stored |-> Null]

\* storeTokens that writes the TokenPair and leaves out the expiry
storeTokens_tokensOnly(tokens, now) ==
    [tokens |-> tokens, expires |-> Null]

\* storeTokens that adds expires_in to Date.now() as if it were milliseconds
storeTokens_secondsAsMs(tokens, now) ==
    [tokens |-> tokens,
     expires |-> [null |-> FALSE, at |-> now + tokens.expires_in]]

\* storeTokens(tokens): the two slots it writes
storeTokens(tokens, now) ==
    [tokens |-> tokens,
     expires |-> [null |-> FALSE, at |-> now + tokens.expires_in * MsPerSecond]]

\* getCurrentUser() returns `user` to its caller: handleCallback stores a
\* non-null user and returns true, a direct call returns the user
getCurrentUserReturn(P, user, storedUser) ==
    IF P.op = "handleCallback"
    THEN [proc |-> Done(P, BoolRet(TRUE)),
          user |-> IF user.null THEN storedUser ELSE user]
    ELSE [proc |-> Done(P, UserRet(user)), user |-> storedUser]

\* getCurrentUser() from its entry to its first await
getCurrentUserEntry(P, tokens, storedUser) ==
    IF tokens.null
    THEN getCurrentUserReturn(P, Null, storedUser)
    ELSE [proc |-> [P EXCEPT !.pc = "userinfo", !.sent = tokens.access_token,
                             !.nUserinfo = Inc(@)],
          user |-> storedUser]

\* refreshToken() that joins a refresh another call has in flight instead of
\* sending its own request
refreshTokenEntry_coalesced(P, tokens) ==
    LET P1 == [P EXCEPT !.nRefresh = Inc(@)] IN
    IF tokens.null \/ tokens.refresh_token = Undefined
    THEN [started |-> FALSE, proc |-> [P1 EXCEPT !.refreshed = "false"]]
    ELSE IF \E q \in DOMAIN procs : procs[q].pc = "refresh"
         THEN [started |-> TRUE,
               proc |-> [P1 EXCEPT !.pc = "refresh", !.sent = NoneSent,
                                   !.refreshed = "none"]]
         ELSE [started |-> TRUE,
               proc |-> [P1 EXCEPT !.pc = "refresh", !.sent = tokens.refresh_token,
                                   !.nToken = Inc(@), !.refreshed = "none"]]

\* refreshToken() that only checks that a TokenPair is stored, not that it
\* holds a refresh token
refreshTokenEntry_anyTokenPair(P, tokens) ==
    LET P1 == [P EXCEPT !.nRefresh = Inc(@)] IN
    IF tokens.null
    THEN [started |-> FALSE, proc |-> [P1 EXCEPT !.refreshed = "false"]]
    ELSE [started |-> TRUE,
          proc |-> [P1 EXCEPT !.pc = "refresh", !.sent = tokens.refresh_token,
                              !.nToken = Inc(@), !.refreshed = "none"]]

\* refreshToken() from its entry to its await on the token endpoint
refreshTokenEntry(P, tokens) ==
    LET P1 == [P EXCEPT !.nRefresh = Inc(@)] IN
    IF tokens.null \/ tokens.refresh_token = Undefined
    THEN [started |-> FALSE, proc |-> [P1 EXCEPT !.refreshed = "false"]]
    ELSE [started |-> TRUE,
          proc |-> [P1 EXCEPT !.pc = "refresh", !.sent = tokens.refresh_token,
                              !.nToken = Inc(@), !.refreshed = "none"]]

\* a caller of refreshToken() whose retry reuses the headers it built before
\* the refresh instead of reading the stored tokens again
afterRefresh_staleHeaders(P, refreshed, tokens, storedUser) ==
    LET P1 == [P EXCEPT !.refreshed = IF refreshed THEN "true" ELSE "false"] IN
    CASE P.op = "refreshToken" ->
            [proc |-> Done(P1, BoolRet(refreshed)), user |-> storedUser]
      [] P.op \in {"getCurrentUser", "handleCallback"} ->
            IF refreshed
            THEN getCurrentUserEntry(P1, tokens, storedUser)
            ELSE getCurrentUserReturn(P1, Null, storedUser)
      [] P.op = "authenticatedFetch" ->
            IF refreshed
            THEN [proc |-> [P1 EXCEPT !.pc = "retry", !.sent = "stale",
                                      !.nUrl = Inc(@)],
                  user |-> storedUser]
            ELSE [proc |-> Done(P1, RespRet(P1.response)), user |-> storedUser]

\* what the caller of refreshToken() does with its result; `tokens` is what
\* getStoredTokens() returns at that point
afterRefresh(P, refreshed, tokens, storedUser) ==
    LET P1 == [P EXCEPT !.refreshed = IF refreshed THEN "true" ELSE "false"] IN
    CASE P.op = "refreshToken" ->
            [proc |-> Done(P1, BoolRet(refreshed)), user |-> storedUser]
      [] P.op \in {"getCurrentUser", "handleCallback"} ->
            IF refreshed
            THEN getCurrentUserEntry(P1, tokens, storedUser)
            ELSE getCurrentUserReturn(P1, Null, storedUser)
      [] P.op = "authenticatedFetch" ->
            IF refreshed
            THEN [proc |-> [P1 EXCEPT !.pc = "retry", !.sent = tokens.access_token,
                                      !.nUrl = Inc(@)],
                  user |-> storedUser]
            ELSE [proc |-> Done(P1, RespRet(P1.response)), user |-> storedUser]

\* authenticatedFetch that refreshes on every 401, the retry's included
authenticatedFetchNext_retryAgain(pc, status) ==
    IF status = 401 THEN "refresh" ELSE "return"

\* authenticatedFetch on a response: only the first request's 401 leads to a
\* refresh, the retry's response is returned whatever its status
authenticatedFetchNext(pc, status) ==
    IF pc = "first" /\ status = 401 THEN "refresh" ELSE "return"

\* isAuthenticated(): a TokenPair is stored and, when an expiry is stored
\* too, Date.now() is not later than it
isAuthenticated(tokens, expires, now) ==
    IF tokens.null THEN FALSE
    ELSE IF ~expires.null /\ now > expires.at THEN FALSE
    ELSE TRUE

Startable(p) == procs[p].pc \in {"idle", "done"}

\* login() whose generateState() keeps a nonce that is already pending
Login_keepPending(nonce) ==
    /\ lsState' = IF lsState.null THEN Str(nonce) ELSE lsState
    /\ authorizeUrl' = [null |-> FALSE, response_type |-> "code", state |-> nonce]
    /\ UNCHANGED <<lsTokens, lsExpires, lsUser, cNow, procs, loggedOut>>
    /\ UNCHANGED <<limiterVars, gateVars>>

\* login(): generateState() stores a random nonce, then the redirect
Login(nonce) ==
    /\ lsState' = Str(nonce)
    /\ authorizeUrl' = [null |-> FALSE, response_type |-> "code", state |-> nonce]
    /\ UNCHANGED <<lsTokens, lsExpires, lsUser, cNow, procs, loggedOut>>
    /\ UNCHANGED <<limiterVars, gateVars>>

\* handleCallback() up to its await on the token exchange, or to its return
HandleCallback(p, cb) ==
    /\ Startable(p)
    /\ LET P == [NewProc("handleCallback") EXCEPT !.cb = cb, !.nonceAtCall = lsState]
       IN  IF ~cb.error.null \/ cb.code.null
           THEN /\ procs' = [procs EXCEPT ![p] = Done(P, BoolRet(FALSE))]
                /\ lsState' = lsState
           ELSE LET v == validateState(cb.state, lsState) IN
                /\ lsState' = v.stored
                /\ procs' = [procs EXCEPT ![p] =
                        IF v.ok
                        THEN [P EXCEPT !.pc = "exchange", !.sent = cb.code.s,
                                       !.nToken = Inc(@)]
                        ELSE Done(P, BoolRet(FALSE))]
    /\ UNCHANGED <<lsTokens, lsExpires, lsUser, authorizeUrl, cNow>>
    /\ loggedOut' = FALSE
    /\ UNCHANGED <<limiterVars, gateVars>>

\* getCurrentUser() up to its await on the identity endpoint
GetCurrentUser(p) ==
    /\ Startable(p)
    /\ LET r == getCurrentUserEntry(NewProc("getCurrentUser"), lsTokens, lsUser)
       IN  procs' = [procs EXCEPT ![p] = r.proc]
    /\ UNCHANGED <<lsTokens, lsExpires, lsUser, lsState, authorizeUrl, cNow, loggedOut>>
    /\ UNCHANGED <<limiterVars, gateVars>>

\* refreshToken() called directly, up to its await on the token endpoint
RefreshToken(p) ==
    /\ Startable(p)
    /\ LET r == refreshTokenEntry(NewProc("refreshToken"), lsTokens)
       IN  procs' = [procs EXCEPT ![p] =
                IF r.started THEN r.proc ELSE Done(r.proc, BoolRet(FALSE))]
    /\ UNCHANGED <<lsTokens, lsExpires, lsUser, lsState, authorizeUrl, cNow, loggedOut>>
    /\ UNCHANGED <<limiterVars, gateVars>>

\* authenticatedFetch(url) up to its await on the first request
AuthenticatedFetch(p) ==
    /\ Startable(p)
    /\ LET P == NewProc("authenticatedFetch")
       IN  procs' = [procs EXCEPT ![p] =
                IF lsTokens.null
                THEN Done(P, ThrowRet("Not authenticated"))
                ELSE [P EXCEPT !.pc = "first", !.sent = lsTokens.access_token,
                               !.nUrl = Inc(@)]]
    /\ UNCHANGED <<lsTokens, lsExpires, lsUser, lsState, authorizeUrl, cNow, loggedOut>>
    /\ UNCHANGED <<limiterVars, gateVars>>

\* isAuthenticated(): synchronous, reads the two slots and the clock
IsAuthenticated(p) ==
    /\ Startable(p)
    /\ procs' = [procs EXCEPT ![p] =
            Done(NewProc("isAuthenticated"),
                 BoolRet(isAuthenticated(lsTokens, lsExpires, cNow)))]
    /\ UNCHANGED <<lsTokens, lsExpires, lsUser, lsState, authorizeUrl, cNow, loggedOut>>
    /\ UNCHANGED <<limiterVars, gateVars>>

\* the token endpoint answers a code exchange or a refresh
TokenResponse(p, resp) ==
    /\ procs[p].pc \in {"exchange", "refresh"}
    /\ LET P == procs[p]
           ok == resp.kind = "http" /\ resp.ok /\ resp.body \in TokenBodies
           st == storeTokens(resp.body, cNow)
       IN  IF ok
           THEN /\ lsTokens' = st.tokens
                /\ lsExpires' = st.expires
                /\ LET r == IF P.pc = "exchange"
                            THEN getCurrentUserEntry(P, st.tokens, lsUser)
                            ELSE afterRefresh(P, TRUE, st.tokens, lsUser)
                   IN  /\ procs' = [procs EXCEPT ![p] = r.proc]
                       /\ lsUser' = r.user
           ELSE /\ UNCHANGED <<lsTokens, lsExpires>>
                /\ LET r == IF P.pc = "exchange"
                            THEN [proc |-> Done(P, BoolRet(FALSE)), user |-> lsUser]
                            ELSE afterRefresh(P, FALSE, lsTokens, lsUser)
                   IN  /\ procs' = [procs EXCEPT ![p] = r.proc]
                       /\ lsUser' = r.user
    /\ UNCHANGED <<lsState, authorizeUrl, cNow, loggedOut>>
    /\ UNCHANGED <<limiterVars, gateVars>>

\* the identity endpoint answers getCurrentUser()'s request
UserinfoResponse(p, resp) ==
    /\ procs[p].pc = "userinfo"
    /\ LET P == procs[p]
           r == IF resp.kind # "http" THEN getCurrentUserReturn(P, Null, lsUser)
                ELSE IF ~resp.ok
                     THEN LET e == refreshTokenEntry(P, lsTokens) IN
                          IF e.started
                          THEN [proc |-> e.proc, user |-> lsUser]
                          ELSE afterRefresh(e.proc, FALSE, lsTokens, lsUser)
                ELSE IF resp.body = BadJson
                     THEN getCurrentUserReturn(P, Null, lsUser)
                     ELSE getCurrentUserReturn(P, resp.body, lsUser)
       IN  /\ procs' = [procs EXCEPT ![p] = r.proc]
           /\ lsUser' = r.user
    /\ UNCHANGED <<lsTokens, lsExpires, lsState, authorizeUrl, cNow, loggedOut>>
    /\ UNCHANGED <<limiterVars, gateVars>>

\* the API url answers authenticatedFetch()'s first request or its retry
UrlResponse(p, status) ==
    /\ procs[p].pc \in {"first", "retry"}
    /\ LET P == procs[p]
           resp == [kind |-> "http", status |-> status, attempt |-> P.pc]
           P1 == IF P.pc = "first" THEN [P EXCEPT !.response = resp] ELSE P
       IN  IF authenticatedFetchNext(P.pc, status) = "refresh"
           THEN LET e == refreshTokenEntry(P1, lsTokens) IN
                procs' = [procs EXCEPT ![p] =
                    IF e.started THEN e.proc
                    ELSE afterRefresh(e.proc, FALSE, lsTokens, lsUser).proc]
           ELSE procs' = [procs EXCEPT ![p] = Done(P1, RespRet(resp))]
    /\ UNCHANGED <<lsTokens, lsExpires, lsUser, lsState, authorizeUrl, cNow, loggedOut>>
    /\ UNCHANGED <<limiterVars, gateVars>>

\* a request of authenticatedFetch() fails on the network: fetch rejects
UrlFailure(p) ==
    /\ procs[p].pc \in {"first", "retry"}
    /\ procs' = [procs EXCEPT ![p] = Done(procs[p], ThrowRet("fetch failed"))]
    /\ UNCHANGED <<lsTokens, lsExpires, lsUser, lsState, authorizeUrl, cNow, loggedOut>>
    /\ UNCHANGED <<limiterVars, gateVars>>

\* logout() that forgets the pending nonce
Logout_keepNonce ==
    /\ lsTokens' = Null
    /\ lsUser' = Null
    /\ lsExpires' = Null
    /\ UNCHANGED <<lsState, authorizeUrl, cNow, procs>>
    /\ loggedOut' = TRUE
    /\ UNCHANGED <<limiterVars, gateVars>>

\* logout(): removes the four slots
Logout ==
    /\ lsTokens' = Null
    /\ lsUser' = Null
    /\ lsExpires' = Null
    /\ lsState' = Null
    /\ UNCHANGED <<authorizeUrl, cNow, procs>>
    /\ loggedOut' = TRUE
    /\ UNCHANGED <<limiterVars, gateVars>>

\* Date.now() advances by a second
ClientTick ==
    /\ cNow < MaxTicks * MsPerSecond
    /\ cNow' = cNow + MsPerSecond
    /\ UNCHANGED <<lsTokens, lsExpires, lsUser, lsState, authorizeUrl, procs, loggedOut>>
    /\ UNCHANGED <<limiterVars, gateVars>>

NextClient ==
    \/ \E nonce \in Nonces : Login(nonce)
    \/ \E p \in Procs, cb \in CallbackParams : HandleCallback(p, cb)
    \/ \E p \in Procs : GetCurrentUser(p)
    \/ \E p \in Procs : RefreshToken(p)
    \/ \E p \in Procs : AuthenticatedFetch(p)
    \/ \E p \in Procs : IsAuthenticated(p)
    \/ \E p \in Procs, resp \in TokenResponses : TokenResponse(p, resp)
    \/ \E p \in Procs, resp \in UserinfoResponses : UserinfoResponse(p, resp)
    \/ \E p \in Procs, status \in UrlStatuses : UrlResponse(p, status)
    \/ \E p \in Procs : UrlFailure(p)
    \/ Logout
    \/ ClientTick

(***************************************************************************)
(* Two SDK calls in flight at once in a signed-in tab: authenticatedFetch  *)
(* and getCurrentUser interleave at their awaits                           *)
(***************************************************************************)
StormProcs == {"p1", "p2"}

NextStorm ==
    \/ \E p \in StormProcs : AuthenticatedFetch(p)
    \/ \E p \in StormProcs : GetCurrentUser(p)
    \/ \E p \in StormProcs, resp \in TokenResponses : TokenResponse(p, resp)
    \/ \E p \in StormProcs, resp \in UserinfoResponses : UserinfoResponse(p, resp)
    \/ \E p \in StormProcs, status \in UrlStatuses : UrlResponse(p, status)
    \/ \E p \in StormProcs : UrlFailure(p)

(***************************************************************************)
(* The example worker: handleCors, applyRateLimit, routing to the wrapped  *)
(* handlers, and the Response each path returns                            *)
(***************************************************************************)
\* a Response: status, body and the set of its (name, value) headers
Response(status, body, headers) ==
    [kind |-> "response", status |-> status, body |-> body, headers |-> headers]

JsonType == <<"Content-Type", "application/json">>
TextType == <<"Content-Type", "text/plain;charset=UTF-8">>

corsHeaders ==
    {<<"Access-Control-Allow-Origin", "*">>,
     <<"Access-Control-Allow-Methods", "GET, POST, PUT, DELETE, OPTIONS">>,
     <<"Access-Control-Allow-Headers", "Content-Type, Authorization">>,
     <<"Access-Control-Max-Age", "86400">>}

\* handleCors(request): the preflight response, or null
handleCors(method) ==
    IF method = "OPTIONS"
    THEN [null |-> FALSE, response |-> Response(200, Null, corsHeaders)]
    ELSE Null

\* addCorsHeaders(response): headers.set replaces a header of the same name
addCorsHeaders(response) ==
    [response EXCEPT !.headers =
        {h \in @ : \A c \in corsHeaders : c[1] # h[1]} \cup corsHeaders]

\* Math.ceil(a / b) for a >= 0, b > 0
Ceil(a, b) == (a + b - 1) \div b

\* applyRateLimit that rounds the remaining time down (Math.floor)
applyRateLimit_floor(reqs, key, now) ==
    LET c == check(reqs, key, now)
        retryAfter == getRemainingTime(c.map, key, now) \div MsPerSecond
    IN  [map |-> c.map,
         response |->
            IF ~c.ret
            THEN [null |-> FALSE,
                  response |->
                    Response(429,
                             [error |-> "Rate limit exceeded",
                              retryAfter |-> retryAfter],
                             {JsonType, <<"Retry-After", retryAfter>>}
                                \cup corsHeaders)]
            ELSE Null]

\* applyRateLimit(request, rateLimiter): the limiter's new map and the 429
\* response, or null when the request is admitted; the Retry-After value is
\* the number whose decimal string the header carries
applyRateLimit(reqs, key, now) ==
    LET c == check(reqs, key, now)
        retryAfter == Ceil(getRemainingTime(c.map, key, now), MsPerSecond)
    IN  [map |-> c.map,
         response |->
            IF ~c.ret
            THEN [null |-> FALSE,
                  response |->
                    Response(429,
                             [error |-> "Rate limit exceeded",
                              retryAfter |-> retryAfter],
                             {JsonType, <<"Retry-After", retryAfter>>}
                                \cup corsHeaders)]
            ELSE Null]

\* one path per branch of the worker's routing
Paths == {"/api/public/products", "/api/protected/profile", "/api/admin/users",
          "/api/optional/wishlist", "/health", "/nowhere"}
Methods == {"GET", "OPTIONS"}
\* request.headers.get('CF-Connecting-IP') || 'unknown'
ClientKeys == {"ip1", "unknown"}
\* the Authorization headers the worker is driven with
WorkerHeaders == {Null, Str(<<"Bearer ", "tokA">>)}

\* the downstream handler of a path, called with the user of the decision
downstreamHandler(path, user) ==
    IF path = "/api/optional/wishlist" /\ user.null
    THEN addCorsHeaders(Response(401, [message |-> "Please login"], {JsonType}))
    ELSE addCorsHeaders(Response(200, [path |-> path, user |-> user], {JsonType}))

\* the Response a wrapped handler returns: the downstream handler's, or the
\* wrapper's own error response
wrappedResponse(w, path) ==
    IF w.handlerCalled
    THEN downstreamHandler(path, w.handlerUser)
    ELSE Response(w.response.status, w.response.body, w.response.headers)

\* the routing of fetch() once CORS and the limiter let the request through
route(path, authHeader, resp) ==
    CASE path = "/api/public/products" -> downstreamHandler(path, Null)
      [] path = "/api/protected/profile" ->
            wrappedResponse(createProtectedHandler(authHeader, resp), path)
      [] path = "/api/admin/users" ->
            wrappedResponse(createRoleProtectedHandler(authHeader, resp, "admin"), path)
      [] path = "/api/optional/wishlist" ->
            wrappedResponse(createOptionalAuthHandler(authHeader, resp), path)
      [] path = "/health" -> Response(200, [status |-> "healthy"], {JsonType})
      [] OTHER -> Response(404, "Not Found", {TextType})

\* the paths whose handler is wrapped by a gate
Gated(path) ==
    path \in {"/api/protected/profile", "/api/admin/users", "/api/optional/wishlist"}

\* fetch(request): preflight, then the limiter, then the routing up to the
\* gate's await on the identity endpoint, or to the returned Response
WorkerRequest(method, key, path, authHeader) ==
    /\ gPc = "idle"
    /\ LET req == [mode |-> "worker", method |-> method, key |-> key,
                   path |-> path, header |-> authHeader]
           cors == handleCors(method)
           rl == applyRateLimit(requests, key, rlNow)
       IN  /\ gReq' = req
           /\ gResp' = NoResp
           /\ IF ~cors.null
              THEN /\ gPc' = "done" /\ gCalls' = 0 /\ gOut' = cors.response
                   /\ requests' = requests
              ELSE /\ requests' = rl.map
                   /\ IF ~rl.response.null
                      THEN gPc' = "done" /\ gCalls' = 0 /\ gOut' = rl.response.response
                      ELSE IF Gated(path) /\ ~extractToken(authHeader).null
                           THEN gPc' = "validating" /\ gCalls' = 1 /\ gOut' = NoOut
                           ELSE /\ gPc' = "done" /\ gCalls' = 0
                                /\ gOut' = route(path, authHeader, NoResp)
    /\ UNCHANGED <<limit, windowMs, rlNow, checkLog, rlRet, inFlight>>
    /\ UNCHANGED clientVars

\* the identity endpoint answers the gate's validateToken and the wrapped
\* handler returns its Response
WorkerValidated(resp) ==
    /\ gPc = "validating"
    /\ gResp' = resp
    /\ gOut' = route(gReq.path, gReq.header, resp)
    /\ gPc' = "done"
    /\ UNCHANGED <<gReq, gCalls>>
    /\ UNCHANGED <<limiterVars, clientVars>>

NextWorker ==
    \/ \E method \in Methods, key \in ClientKeys, path \in Paths,
          authHeader \in WorkerHeaders :
            WorkerRequest(method, key, path, authHeader)
    \/ \E resp \in Responses : WorkerValidated(resp)
    \/ GateReturn
    \/ LimiterTick

(***************************************************************************)
(* hasPermission, the capability check of the token-validation helpers     *)
(***************************************************************************)
\* role strings hasPermission is applied to: the table's keys, strings that
\* are no property of the table, and names the table inherits
PermissionRoles ==
    {"admin", "vendor", "customer", "guest", "", "constructor", "toString",
     "__proto__"}

\* a caller applies hasPermission to the pair of roles it holds
HasPermission ==
    /\ gPc = "idle"
    /\ gReq.mode = "hasPermission"
    /\ gOut' = [threw |-> FALSE,
                ret |-> hasPermission(gReq.userRole, gReq.requiredRole)]
    /\ gPc' = "done"
    /\ UNCHANGED <<gReq, gResp, gCalls>>
    /\ UNCHANGED <<limiterVars, clientVars>>

NextPermission == HasPermission

(***************************************************************************)
(* The worker under concurrently dispatched requests: fetch runs           *)
(* handleCors and applyRateLimit without an await, so a request's          *)
(* check() is one step; the request then suspends in its handler (the      *)
(* validateToken fetch, request.json()) while other requests are           *)
(* dispatched                                                              *)
(***************************************************************************)
MaxInFlight == 2   \* requests suspended at an await at one time

\* a request that is not a preflight arrives: applyRateLimit runs; an
\* admitted request goes on to its handler, which either answers in the
\* same turn or suspends at an await
Dispatch(key, suspends) ==
    /\ Len(checkLog) < MaxLog
    /\ inFlight < MaxInFlight
    /\ LET rl == applyRateLimit(requests, key, rlNow)
           admitted == rl.response = Null IN
        /\ requests' = rl.map
        /\ checkLog' = Append(checkLog, [key |-> key, time |-> rlNow, ret |-> admitted])
        /\ inFlight' = IF admitted /\ suspends THEN inFlight + 1 ELSE inFlight
    /\ UNCHANGED <<limit, windowMs, rlNow, rlRet>>
    /\ UNCHANGED <<gateVars, clientVars>>

\* a suspended request is resumed and answers
Resume ==
    /\ inFlight > 0
    /\ inFlight' = inFlight - 1
    /\ UNCHANGED <<limit, windowMs, requests, rlNow, checkLog, rlRet>>
    /\ UNCHANGED <<gateVars, clientVars>>

NextDispatch ==
    \/ \E key \in ClientKeys : \E suspends \in BOOLEAN : Dispatch(key, suspends)
    \/ Resume
    \/ LimiterTick

(***************************************************************************)
(* Specifications                                                          *)
(***************************************************************************)
\* new RateLimiter(limit, windowMs) with an empty map; no gate request and
\* no client call exists
InitLimiter ==
    /\ limit \in 0..MaxLimit
    /\ windowMs \in 1..MaxWindow
    /\ requests = << >>
    /\ rlNow = 0
    /\ checkLog = << >>
    /\ rlRet = NoRet
    /\ inFlight = 0
    /\ gPc = "idle"
    /\ gReq = NoReq
    /\ gResp = NoResp
    /\ gCalls = 0
    /\ gOut = NoOut
    /\ lsTokens = Null
    /\ lsExpires = Null
    /\ lsUser = Null
    /\ lsState = Null
    /\ authorizeUrl = Null
    /\ cNow = 0
    /\ loggedOut = FALSE
    /\ procs = [p \in Procs |-> IdleProc]

\* the example worker's limiter, new RateLimiter(100, 60000), unused; no
\* request is in progress at the gate
InitGate ==
    /\ limit = 100
    /\ windowMs = 60000
    /\ requests = << >>
    /\ rlNow = 0
    /\ checkLog = << >>
    /\ rlRet = NoRet
    /\ inFlight = 0
    /\ gPc = "idle"
    /\ gReq = NoReq
    /\ gResp = NoResp
    /\ gCalls = 0
    /\ gOut = NoOut
    /\ lsTokens = Null
    /\ lsExpires = Null
    /\ lsUser = Null
    /\ lsState = Null
    /\ authorizeUrl = Null
    /\ cNow = 0
    /\ loggedOut = FALSE
    /\ procs = [p \in Procs |-> IdleProc]

\* new AuthClient(config) in a browser whose localStorage is empty
InitClient ==
    /\ limit = 100
    /\ windowMs = 60000
    /\ requests = << >>
    /\ rlNow = 0
    /\ checkLog = << >>
    /\ rlRet = NoRet
    /\ inFlight = 0
    /\ gPc = "idle"
    /\ gReq = NoReq
    /\ gResp = NoResp
    /\ gCalls = 0
    /\ gOut = NoOut
    /\ lsTokens = Null
    /\ lsExpires = Null
    /\ lsUser = Null
    /\ lsState = Null
    /\ authorizeUrl = Null
    /\ cNow = 0
    /\ loggedOut = FALSE
    /\ procs = [p \in Procs |-> IdleProc]

\* the example worker with a limiter whose limit and window are scaled down
\* to the bounds, nothing served yet
InitWorker ==
    /\ limit \in 0..MaxLimit
    /\ windowMs \in 1..MaxWindow
    /\ requests = << >>
    /\ rlNow = 0
    /\ checkLog = << >>
    /\ rlRet = NoRet
    /\ inFlight = 0
    /\ gPc = "idle"
    /\ gReq = NoReq
    /\ gResp = NoResp
    /\ gCalls = 0
    /\ gOut = NoOut
    /\ lsTokens = Null
    /\ lsExpires = Null
    /\ lsUser = Null
    /\ lsState = Null
    /\ authorizeUrl = Null
    /\ cNow = 0
    /\ loggedOut = FALSE
    /\ procs = [p \in Procs |-> IdleProc]

\* the worker's limiter with an empty map and no request in flight
InitDispatch ==
    /\ limit \in 0..MaxLimit
    /\ windowMs \in 1..MaxWindow
    /\ requests = << >>
    /\ rlNow = 0
    /\ checkLog = << >>
    /\ rlRet = NoRet
    /\ inFlight = 0
    /\ gPc = "idle"
    /\ gReq = NoReq
    /\ gResp = NoResp
    /\ gCalls = 0
    /\ gOut = NoOut
    /\ lsTokens = Null
    /\ lsExpires = Null
    /\ lsUser = Null
    /\ lsState = Null
    /\ authorizeUrl = Null
    /\ cNow = 0
    /\ loggedOut = FALSE
    /\ procs = [p \in Procs |-> IdleProc]

\* a signed-in tab: login("n1") and its callback have stored the TokenPair,
\* the expiry and the user; no SDK call is in progress
InitStorm ==
    /\ limit = 100
    /\ windowMs = 60000
    /\ requests = << >>
    /\ rlNow = 0
    /\ checkLog = << >>
    /\ rlRet = NoRet
    /\ inFlight = 0
    /\ gPc = "idle"
    /\ gReq = NoReq
    /\ gResp = NoResp
    /\ gCalls = 0
    /\ gOut = NoOut
    /\ lsTokens = AuthTokens("a1", "r1", 1)
    /\ lsExpires = [null |-> FALSE, at |-> MsPerSecond]
    /\ lsUser \in ClientUsers
    /\ lsState = Null
    /\ authorizeUrl = [null |-> FALSE, response_type |-> "code", state |-> "n1"]
    /\ cNow = 0
    /\ loggedOut = FALSE
    /\ procs = [p \in StormProcs |-> IdleProc]

\* a caller about to apply hasPermission to any pair of role strings
InitPermission ==
    /\ limit = 100
    /\ windowMs = 60000
    /\ requests = << >>
    /\ rlNow = 0
    /\ checkLog = << >>
    /\ rlRet = NoRet
    /\ inFlight = 0
    /\ gPc = "idle"
    /\ gReq \in {[mode |-> "hasPermission", userRole |-> u, requiredRole |-> r] :
                    u \in PermissionRoles, r \in PermissionRoles}
    /\ gResp = NoResp
    /\ gCalls = 0
    /\ gOut = NoOut
    /\ lsTokens = Null
    /\ lsExpires = Null
    /\ lsUser = Null
    /\ lsState = Null
    /\ authorizeUrl = Null
    /\ cNow = 0
    /\ loggedOut = FALSE
    /\ procs = [p \in Procs |-> IdleProc]

\* the limiter alone: requests are checked while the clock advances
SpecLimiter == InitLimiter /\ [][NextLimiter]_vars

\* the gate alone: one call after the other, the limiter untouched
SpecGate == InitGate /\ [][NextGate]_vars

\* the client alone: SDK calls, login, logout and the servers' answers
SpecClient == InitClient /\ [][NextClient]_vars

\* the worker: requests served one after the other while the clock advances
SpecWorker == InitWorker /\ [][NextWorker]_vars

\* hasPermission applied once to each pair of role strings
SpecPermission == InitPermission /\ [][NextPermission]_vars

\* two SDK calls of a signed-in tab interleaved at their awaits
SpecStorm == InitStorm /\ [][NextStorm]_vars

\* the worker's limiter under requests dispatched while others are suspended
SpecDispatch == InitDispatch /\ [][NextDispatch]_vars

(***************************************************************************)
(* RateLimiter: claims                                                     *)
(***************************************************************************)
\* the check() calls made for one key, in order
KeyCalls(key) == SelectSeq(checkLog, LAMBDA e : e.key = key)

\* number of admitted check(key) calls with lo <= time, and time < hi
\* (or time <= hi when closed)
AdmittedIn(key, lo, hi, closed) ==
    Cardinality({i \in 1..Len(checkLog) :
                    /\ checkLog[i].key = key
                    /\ checkLog[i].ret
                    /\ lo <= checkLog[i].time
                    /\ IF closed THEN checkLog[i].time <= hi
                                 ELSE checkLog[i].time < hi})

\* index of the first call of c made after time t, 0 if there is none
FirstAfter(c, t) ==
    IF \E i \in 1..Len(c) : c[i].time > t
    THEN CHOOSE i \in 1..Len(c) :
            /\ c[i].time > t
            /\ \A j \in 1..(i - 1) : c[j].time <= t
    ELSE 0

\* C3: for limit >= 1 and a key that starts with no record, the calls made up
\* to the reset time of the window opened by the first call return true for
\* the first `limit` of them and false for every further one; the first call
\* after that reset time returns true and leaves the record {count 1,
\* resetTime = its time + windowMs}.
C3_FixedWindowScenario ==
    limit >= 1 =>
      \A key \in Keys :
        LET c == KeyCalls(key)
            reset == c[1].time + windowMs
            j == FirstAfter(c, reset)
        IN  Len(c) > 0 =>
              /\ \A i \in 1..Len(c) :
                    c[i].time <= reset => (c[i].ret <=> (i <= limit))
              /\ j > 0 => c[j].ret
              /\ (j > 0 /\ j = Len(c)) =>
                    /\ key \in DOMAIN requests
                    /\ requests[key] = [count |-> 1,
                                        resetTime |-> c[j].time + windowMs]

\* C3 witness: limit 2, one key saw true, true, false in its first window
\* and true on the first call after the window elapsed
C3_Witness ==
    /\ limit = 2
    /\ \E key \in Keys :
        LET c == KeyCalls(key) IN
            /\ Len(c) = 4
            /\ c[1].ret /\ c[2].ret /\ ~c[3].ret /\ c[4].ret
            /\ c[3].time <= c[1].time + windowMs
            /\ c[4].time > c[1].time + windowMs

\* C4 as stated (for the limits >= 1 the claim's "limit admissions" is about):
\* every interval [t, t + windowMs) holds at most `limit` admitted calls of
\* a key.
C4_AnyIntervalAtMostLimit ==
    limit >= 1 =>
      \A key \in Keys : \A t \in 0..MaxTime :
        AdmittedIn(key, t, t + windowMs, FALSE) <= limit

\* C4 amended: the limiter is a fixed-window counter. The admitted calls of
\* the current window (from its start to its reset time) number at most
\* max(limit, 1) and equal the record's count, and every closed interval
\* [t, t + windowMs] meets at most two windows, so it holds at most
\* 2 * max(limit, 1) admitted calls.
C4_FixedWindowBound ==
    \A key \in Keys :
      /\ key \in DOMAIN requests =>
            LET start == requests[key].resetTime - windowMs
                n == AdmittedIn(key, start, requests[key].resetTime, TRUE)
            IN  /\ n <= Max(limit, 1)
                /\ n = requests[key].count
      /\ \A t \in 0..MaxTime :
            AdmittedIn(key, t, t + windowMs, TRUE) <= 2 * Max(limit, 1)

\* C4 witness: limit 2 and an interval of length windowMs that holds more
\* than `limit` admitted calls of one key (the end of one window and the
\* start of the next)
C4_Witness ==
    /\ limit = 2
    /\ \E key \in Keys : \E t \in 0..MaxTime :
          AdmittedIn(key, t, t + windowMs, FALSE) = 3

\* the step is a check() call: one entry is added to the log
IsCheckStep == Len(checkLog') = Len(checkLog) + 1

\* the entry the check() call of this step adds
Logged == checkLog'[Len(checkLog')]

IsRemainingStep ==
    /\ rlRet'.kind = "remaining"
    /\ rlNow' = rlNow
    /\ checkLog' = checkLog

\* C26: getRemainingTime(key) returns 0 when key has no record, otherwise
\* the time left until the reset time and 0 once that time is reached; the
\* value is never negative and never more than windowMs, and the call
\* leaves the window map as it was.
C26_RemainingTime ==
    [][IsRemainingStep =>
          LET key == rlRet'.key
              r == rlRet'.ret IN
          /\ key \notin DOMAIN requests => r = 0
          /\ key \in DOMAIN requests =>
                /\ rlNow < requests[key].resetTime =>
                      r + rlNow = requests[key].resetTime
                /\ rlNow >= requests[key].resetTime => r = 0
          /\ r >= 0
          /\ r <= windowMs
          /\ requests' = requests]_vars

\* C26 witness: getRemainingTime returned a positive time for a key whose
\* window is still open
C26_Witness ==
    /\ rlRet.kind = "remaining"
    /\ rlRet.key \in DOMAIN requests
    /\ rlRet.ret > 0
    /\ rlRet.ret + rlNow = requests[rlRet.key].resetTime

\* the admitted check() calls of key logged from time `from` on
AdmittedSince(key, from) ==
    Cardinality({i \in 1..Len(checkLog) :
                    /\ checkLog[i].key = key
                    /\ checkLog[i].ret
                    /\ checkLog[i].time >= from})

\* the record of key counts every call admitted to its window, and for a
\* limit of 1 or more no more than `limit` of them
CountsEveryAdmission(key) ==
    LET n == AdmittedSince(key, requests[key].resetTime - windowMs) IN
    /\ requests[key].count = n
    /\ limit >= 1 => n <= limit

\* C27: whatever requests are suspended while a request is dispatched, its
\* check(key) runs as one step: after every admitted check the record of key
\* counts every call admitted to the window (no increment is lost), and for
\* limit >= 1 the calls admitted to one window of a key never exceed limit.
C27_NoLostIncrement ==
    [][\A key \in ClientKeys :
          (IsCheckStep /\ Logged.key = key /\ Logged.ret)
             => CountsEveryAdmission(key)']_vars

\* C27 witness: two requests are suspended and both were counted in the same
\* window of one key, which is now full
C27_Witness ==
    /\ inFlight = 2
    /\ limit = 2
    /\ \E key \in ClientKeys :
          /\ key \in DOMAIN requests
          /\ requests[key].count = 2
          /\ AdmittedSince(key, requests[key].resetTime - windowMs) = 2
          /\ rlNow <= requests[key].resetTime

\* the check(key) call of this step starts a window: it is admitted and puts
\* a fresh record {1, now + windowMs} in the place of none or of another one
StartsWindow(key) ==
    /\ Logged.ret
    /\ requests'[key] = [count |-> 1, resetTime |-> rlNow + windowMs]
    /\ key \in DOMAIN requests => requests'[key] # requests[key]

\* C30: check(key) starts a new window iff key has no record or the time is
\* strictly later than the record's reset time; a call made exactly at the
\* reset time keeps the window, is counted in it, and is denied when the
\* window is full.
C30_NewWindowOnlyAfterResetTime ==
    [][\A key \in Keys :
          (IsCheckStep /\ Logged.key = key) =>
             /\ StartsWindow(key) <=>
                   (key \notin DOMAIN requests \/ rlNow > requests[key].resetTime)
             /\ (key \in DOMAIN requests /\ rlNow = requests[key].resetTime) =>
                   /\ requests'[key].resetTime = requests[key].resetTime
                   /\ IF requests[key].count >= limit
                      THEN ~Logged.ret /\ requests' = requests
                      ELSE /\ Logged.ret
                           /\ requests'[key].count = requests[key].count + 1]_vars

\* C30 witness: with a limit of 1 or more, the last check() was made exactly
\* at the reset time of a full window and was denied
C30_Witness ==
    /\ limit >= 1
    /\ Len(checkLog) >= 1
    /\ LET e == checkLog[Len(checkLog)] IN
          /\ ~e.ret
          /\ e.time = requests[e.key].resetTime
          /\ requests[e.key].count = limit

\* C36: while the window of a key is open (the time has not passed its reset
\* time) no step changes the record's reset time or lowers its count,
\* whether a check(key) is admitted or denied; and the count of a record is
\* at least 1 and never more than max(limit, 1).
C36_WindowIsFixed ==
    [][/\ \A key \in DOMAIN requests :
            rlNow <= requests[key].resetTime =>
               /\ key \in DOMAIN requests'
               /\ requests'[key].resetTime = requests[key].resetTime
               /\ requests'[key].count >= requests[key].count
       /\ \A key \in DOMAIN requests' :
            /\ requests'[key].count >= 1
            /\ requests'[key].count <= Max(limit, 1)]_vars

\* C36 witness: a key was admitted and later, in the same window, checked
\* again and denied; the record still has the reset time of the window's
\* first call and a count of max(limit, 1)
C36_Witness ==
    \E i, j \in 1..Len(checkLog) :
       LET key == checkLog[i].key IN
       /\ i < j
       /\ checkLog[j].key = key
       /\ checkLog[i].ret /\ ~checkLog[j].ret
       /\ checkLog[i].time < checkLog[j].time
       /\ requests[key].resetTime = checkLog[i].time + windowMs
       /\ checkLog[j].time <= requests[key].resetTime
       /\ requests[key].count = Max(limit, 1)

\* the records of all keys but key are the same before and after the step
OthersUntouched(key) ==
    \A k \in Keys \ {key} :
       /\ k \in DOMAIN requests' <=> k \in DOMAIN requests
       /\ k \in DOMAIN requests => requests'[k] = requests[k]

\* C37: check(k) and getRemainingTime(k) leave the record of every other key
\* as it was, and what they return is decided by the record of k and the
\* time alone, so the admissions of one key do not depend on the traffic of
\* the other keys.
C37_OtherKeysUntouched ==
    [][\A key \in Keys :
          /\ (IsCheckStep /\ Logged.key = key) =>
                /\ OthersUntouched(key)
                /\ Logged.ret <=>
                      \/ key \notin DOMAIN requests
                      \/ rlNow > requests[key].resetTime
                      \/ requests[key].count < limit
          /\ (IsRemainingStep /\ rlRet'.key = key) =>
                /\ OthersUntouched(key)
                /\ rlRet'.ret =
                      IF key \in DOMAIN requests /\ rlNow < requests[key].resetTime
                      THEN requests[key].resetTime - rlNow
                      ELSE 0]_vars

\* C37 witness: ip1 has used up its window and was denied, and after that
\* ip2 was admitted at the same time into a window of its own
C37_Witness ==
    /\ limit >= 1
    /\ Len(checkLog) >= 2
    /\ LET d == checkLog[Len(checkLog) - 1]
           a == checkLog[Len(checkLog)] IN
          /\ d.key = "ip1" /\ ~d.ret
          /\ a.key = "ip2" /\ a.ret
          /\ a.time = d.time
          /\ requests["ip1"].count = limit
          /\ requests["ip2"].count = 1

\* C38: a limiter with limit 0 admits nothing, every check(key) returns
\* false; and for every limit >= 0 the calls admitted to the window of a key
\* number at most limit.
C38_LimitZeroAdmitsNothing ==
    /\ limit = 0 => \A i \in 1..Len(checkLog) : ~checkLog[i].ret
    /\ \A key \in DOMAIN requests :
          AdmittedSince(key, requests[key].resetTime - windowMs) <= limit

(***************************************************************************)
(* Authorization gate: claims                                              *)
(***************************************************************************)
\* the request carries a credential: an Authorization header that is not
\* empty once its first "Bearer " is taken out
CarriesToken(header) ==
    /\ ~header.null
    /\ \/ Len(header.s) >= 2
       \/ Len(header.s) = 1 /\ header.s[1] # "Bearer "

\* the identity endpoint answered success with an identity
IsIdentity(resp) ==
    /\ resp.kind = "http"
    /\ resp.ok
    /\ resp.body \in Users

GateDone(mode) == gPc = "done" /\ gReq.mode = mode

\* C5: requireRole(request, R) returns {identity, 200} iff the request's
\* token validated to an identity whose role is exactly R; every other
\* validated identity (higher-ranked, lower-ranked or without a role) gets
\* {user null, status 403, error "Required role: R"}.
C5_RequireRoleExact ==
    GateDone("requireRole") =>
      LET validated == CarriesToken(gReq.header) /\ IsIdentity(gResp) IN
        /\ ~gOut.threw
        /\ (gOut.status = 200) <=> (validated /\ gResp.body.role = gReq.role)
        /\ gOut.status = 200 =>
              gOut = AuthResult(gResp.body, NoError, 200)
        /\ (validated /\ gResp.body.role # gReq.role) =>
              gOut = AuthResult(Null, RoleError(gReq.role), 403)

\* C5 witness: an admin identity on a route pinned to vendor is refused 403
C5_Witness ==
    /\ GateDone("requireRole")
    /\ gReq.role = "vendor"
    /\ IsIdentity(gResp)
    /\ gResp.body.role = "admin"
    /\ hasPermission(gResp.body.role, gReq.role)
    /\ gOut.status = 403

\* C6: requireAuth returns exactly one of three decisions: without a token
\* {null, 401, "No authorization token provided"} and no identity call; with
\* a token the validator turns down {null, 401, "Invalid or expired token"};
\* with a token that validates {identity, 200} and no error.
C6_RequireAuthThreeWay ==
    GateDone("requireAuth") =>
      /\ ~CarriesToken(gReq.header) =>
            gOut = AuthResult(Null, NoTokenError, 401) /\ gCalls = 0
      /\ (CarriesToken(gReq.header) /\ ~IsIdentity(gResp)) =>
            gOut = AuthResult(Null, InvalidTokenError, 401) /\ gCalls = 1
      /\ (CarriesToken(gReq.header) /\ IsIdentity(gResp)) =>
            gOut = AuthResult(gResp.body, NoError, 200) /\ gCalls = 1

\* C6 witness: a token the identity endpoint answers 401 for
C6_Witness ==
    /\ GateDone("requireAuth")
    /\ CarriesToken(gReq.header)
    /\ gResp.kind = "http" /\ gResp.status = 401
    /\ gOut = AuthResult(Null, InvalidTokenError, 401)

\* C7: optionalAuth returns status 200 and no error for every request; the
\* user is the identity when the token validated and null in every other
\* case (no token, rejected token, unreachable endpoint).
C7_OptionalAlways200 ==
    GateDone("optionalAuth") =>
      /\ ~gOut.threw
      /\ gOut.status = 200
      /\ gOut.error = NoError
      /\ IF CarriesToken(gReq.header) /\ IsIdentity(gResp)
         THEN gOut.user = gResp.body
         ELSE gOut.user = Null

\* C7 witness: a token whose validation call failed on the network
C7_Witness ==
    /\ GateDone("optionalAuth")
    /\ CarriesToken(gReq.header)
    /\ gResp.kind = "netfail"
    /\ gOut = AuthResult(Null, NoError, 200)

\* C8: a handler built by createProtectedHandler or
\* createRoleProtectedHandler invokes the downstream handler iff the gate
\* decision succeeded, then with the decision's non-null user and returning
\* the handler's response; otherwise the handler is not invoked and the
\* response is JSON {error: reason} with the decision's status, 401 or 403.
C8_HandlerIffDecision ==
    (GateDone("protected") \/ GateDone("roleProtected")) =>
      LET d == gOut.authResult
          allowed == /\ CarriesToken(gReq.header)
                     /\ IsIdentity(gResp)
                     /\ gReq.mode = "roleProtected" => gResp.body.role = gReq.role
      IN  /\ ~gOut.threw
          /\ gOut.handlerCalled <=> d.status = 200
          /\ gOut.handlerCalled <=> allowed
          /\ gOut.handlerCalled =>
                /\ gOut.handlerUser = gResp.body
                /\ ~gOut.handlerUser.null
                /\ gOut.response = Downstream
          /\ ~gOut.handlerCalled =>
                /\ d.status \in {401, 403}
                /\ gOut.response.kind = "error"
                /\ gOut.response.status = d.status
                /\ gOut.response.body = [error |-> d.error]
                /\ d.error # NoError

\* C8 witness: a role-protected handler refused a validated identity of
\* another role, with 403 and without invoking the downstream handler
C8_Witness ==
    /\ GateDone("roleProtected")
    /\ IsIdentity(gResp)
    /\ ~gOut.handlerCalled
    /\ gOut.response.kind = "error"
    /\ gOut.response.status = 403

\* C9: validateToken never throws; a network failure, a non-success status
\* or an unreadable body yields null, and a non-null identity is returned
\* only for a success response, whose body it is.
C9_ValidateTokenNeverThrows ==
    GateDone("validateToken") =>
      /\ ~gOut.threw
      /\ (gResp.kind # "http" \/ ~gResp.ok) => gOut.user = Null
      /\ gOut.user # Null => (IsIdentity(gResp) /\ gOut.user = gResp.body)
      /\ IsIdentity(gResp) => gOut.user = gResp.body

\* C9 witness: the fetch to the identity endpoint failed and null came back
C9_Witness ==
    /\ GateDone("validateToken")
    /\ gResp.kind = "netfail"
    /\ ~gOut.threw
    /\ gOut.user = Null

\* C29: in requireRole and the role-protected handler authentication is
\* decided before the role: a request without a token gets {null, 401, "No
\* authorization token provided"} and a request whose token the validator
\* rejects gets {null, 401, "Invalid or expired token"}, whatever role is
\* required; 403 is decided only for a request whose token validated.
C29_AuthenticationBeforeRole ==
    (GateDone("requireRole") \/ GateDone("roleProtected")) =>
      LET d == IF gReq.mode = "requireRole" THEN gOut ELSE gOut.authResult IN
      /\ ~gOut.threw
      /\ ~CarriesToken(gReq.header) =>
            d = AuthResult(Null, NoTokenError, 401)
      /\ (CarriesToken(gReq.header) /\ ~IsIdentity(gResp)) =>
            d = AuthResult(Null, InvalidTokenError, 401)
      /\ d.status = 403 => (CarriesToken(gReq.header) /\ IsIdentity(gResp))
      /\ (/\ gReq.mode = "roleProtected"
          /\ gOut.response.kind = "error"
          /\ gOut.response.status = 403)
            => (CarriesToken(gReq.header) /\ IsIdentity(gResp))

\* C29 witness: requireRole("admin") on a request whose token the identity
\* endpoint rejects decides 401, not 403
C29_Witness ==
    /\ GateDone("requireRole")
    /\ gReq.role = "admin"
    /\ CarriesToken(gReq.header)
    /\ gResp.kind = "http" /\ gResp.status = 401
    /\ gOut = AuthResult(Null, InvalidTokenError, 401)

\* C23: when the call to the identity endpoint fails on the network, a
\* request that carries a token gets the decision {null, 401, "Invalid or
\* expired token"} from requireAuth and requireRole, the protected and
\* role-protected handlers answer 401 without invoking the downstream
\* handler, optionalAuth decides {null, 200} and the optional handler runs
\* with no user; none of the gate functions throws.
C23_FailsClosedOnNetworkFailure ==
    (gPc = "done" /\ gReq.mode \in Modes /\ gResp.kind = "netfail") =>
      /\ ~gOut.threw
      /\ gCalls = 1
      /\ gReq.mode = "validateToken" => gOut.user = Null
      /\ gReq.mode \in {"requireAuth", "requireRole"} =>
            gOut = AuthResult(Null, InvalidTokenError, 401)
      /\ gReq.mode \in {"protected", "roleProtected"} =>
            /\ gOut.authResult = AuthResult(Null, InvalidTokenError, 401)
            /\ ~gOut.handlerCalled
            /\ gOut.response.kind = "error"
            /\ gOut.response.status = 401
      /\ gReq.mode = "optionalAuth" => gOut = AuthResult(Null, NoError, 200)
      /\ gReq.mode = "optionalHandler" =>
            /\ gOut.authResult = AuthResult(Null, NoError, 200)
            /\ gOut.handlerCalled
            /\ gOut.handlerUser = Null

\* C23 witness: a role-protected handler got a token, the identity call
\* failed on the network, and the answer is 401 with the handler not invoked
C23_Witness ==
    /\ GateDone("roleProtected")
    /\ CarriesToken(gReq.header)
    /\ gResp.kind = "netfail"
    /\ gOut.response.kind = "error"
    /\ gOut.response.status = 401
    /\ ~gOut.handlerCalled

\* C35: every decision requireAuth and requireRole return has a status among
\* 200, 401 and 403, carries an identity iff the status is 200 and an error
\* reason iff it is not, also when the identity endpoint answers success with
\* a null body.
C35_DecisionWellFormed ==
    (GateDone("requireAuth") \/ GateDone("requireRole")) =>
      /\ ~gOut.threw
      /\ gOut.status \in {200, 401, 403}
      /\ gReq.mode = "requireAuth" => gOut.status # 403
      /\ ~gOut.user.null <=> gOut.status = 200
      /\ gOut.user.null => gOut.user = Null
      /\ gOut.error # NoError <=> gOut.status # 200

\* C35 witness: the identity endpoint answered 200 with a null body to a
\* request that carries a token, and requireRole decided 401 with a reason
\* and no identity
C35_Witness ==
    /\ GateDone("requireRole")
    /\ CarriesToken(gReq.header)
    /\ gResp.kind = "http" /\ gResp.ok /\ gResp.body = Null
    /\ gOut = AuthResult(Null, InvalidTokenError, 401)

(***************************************************************************)
(* AuthClient: claims                                                      *)
(***************************************************************************)
\* the call of method op that process p is running or has completed
Running(p, op) == procs[p].op = op

\* C1: handleCallback() reaches the token exchange only if the callback's
\* state parameter is present and equals a nonce that was stored when the
\* callback arrived; with the state absent or no nonce stored it returns
\* false without a token call.
C1_ExchangeOnlyWithStoredNonce ==
    \A p \in Procs :
      Running(p, "handleCallback") =>
        LET P == procs[p]
            matches == /\ ~P.cb.state.null
                       /\ ~P.nonceAtCall.null
                       /\ P.cb.state = P.nonceAtCall
        IN  /\ P.nToken > 0 => matches
            /\ ~matches => (P.pc = "done" /\ P.ret = BoolRet(FALSE) /\ P.nToken = 0)

\* C2: a getCurrentUser() invocation makes at most one refreshToken()
\* attempt and at most two identity-endpoint calls, whatever the servers
\* answer.
C2_GetCurrentUserBounded ==
    \A p \in Procs :
      Running(p, "getCurrentUser") =>
        /\ procs[p].nRefresh <= 1
        /\ procs[p].nUserinfo <= 2

\* C10: an authenticatedFetch(url) invocation makes at most one refreshToken()
\* (so at most one token call) and at most two requests to url. A first
\* response other than 401 is returned as it is, with no refresh and no
\* second request. A first response of 401 is followed by exactly one
\* refreshToken(); if that succeeds exactly one retry is sent, and the
\* retry's response is what the call returns, a 401 included; if it fails
\* the first response is returned.
C10_FetchRefreshOnceRetryOnce ==
    \A p \in Procs :
      Running(p, "authenticatedFetch") =>
        LET P == procs[p]
            first401 == P.response # NoResp /\ P.response.status = 401
        IN  /\ P.nRefresh <= 1 /\ P.nToken <= 1 /\ P.nUrl <= 2
            /\ (P.response # NoResp /\ ~first401) =>
                    /\ P.pc = "done"
                    /\ P.ret = RespRet(P.response)
                    /\ P.nRefresh = 0 /\ P.nUrl = 1
            /\ first401 => P.nRefresh = 1
            /\ P.nRefresh = 1 => first401
            /\ P.nUrl = 2 <=> P.refreshed = "true"
            /\ (P.pc = "done" /\ P.refreshed = "true" /\ P.ret.kind = "response") =>
                    P.ret.v.attempt = "retry"
            /\ (P.pc = "done" /\ P.refreshed = "false") =>
                    P.ret = RespRet(P.response)

\* C10 witness: the first request got 401, the refresh succeeded, and the
\* retry's second 401 was returned
C10_Witness ==
    \E p \in Procs :
      /\ Running(p, "authenticatedFetch")
      /\ procs[p].pc = "done"
      /\ procs[p].response = [kind |-> "http", status |-> 401, attempt |-> "first"]
      /\ procs[p].refreshed = "true"
      /\ procs[p].nRefresh = 1
      /\ procs[p].nUrl = 2
      /\ procs[p].ret = RespRet([kind |-> "http", status |-> 401, attempt |-> "retry"])

\* C11: when the first request of authenticatedFetch() got 401 and the
\* refreshToken() that follows succeeds, the step that ends the refresh stores
\* the token endpoint's TokenPair and sends the one retry with the access
\* token of exactly that stored TokenPair; the step that ends the retry
\* returns the retry's response (or rejects when the network failed), never
\* the first attempt's 401.
C11_RetryCarriesRefreshedToken ==
    [][\A p \in Procs :
        LET P == procs[p]
            Q == procs'[p]
        IN  Running(p, "authenticatedFetch") =>
              /\ (P.pc = "refresh" /\ Q # P /\ Q.refreshed = "true") =>
                    /\ P.response.status = 401
                    /\ Q.pc = "retry"
                    /\ lsTokens' \in TokenBodies
                    /\ lsExpires' = storeTokens(lsTokens', cNow).expires
                    /\ Q.sent = lsTokens'.access_token
              /\ (P.pc = "retry" /\ Q # P) =>
                    /\ Q.pc = "done"
                    /\ Q.ret.kind \in {"response", "throw"}
                    /\ Q.ret.kind = "response" => Q.ret.v.attempt = "retry"]_vars

\* C11 witness: the first request was sent with a1 and got 401, the refresh
\* stored a TokenPair whose access token is a2, the retry was sent with a2
\* and its 200 response is what the call returned
C11_Witness ==
    \E p \in Procs :
      /\ Running(p, "authenticatedFetch")
      /\ procs[p].pc = "done"
      /\ procs[p].response = [kind |-> "http", status |-> 401, attempt |-> "first"]
      /\ procs[p].refreshed = "true"
      /\ procs[p].sent = "a2"
      /\ lsTokens \in TokenBodies
      /\ lsTokens.access_token = "a2"
      /\ procs[p].ret = RespRet([kind |-> "http", status |-> 200, attempt |-> "retry"])

\* the stored TokenPair holds a refresh token
HasRefreshToken(tokens) == ~tokens.null /\ tokens.refresh_token # Undefined

C13_IsAuthenticatedStrictlyBeforeExpiry ==
    [][\A p \in Procs :
        LET P == procs[p]
            Q == procs'[p]
        IN  (Startable(p) /\ Q # P /\ Q.op = "isAuthenticated") =>
              /\ Q.pc = "done"
              /\ Q.nToken = 0 /\ Q.nUserinfo = 0 /\ Q.nUrl = 0
              /\ UNCHANGED <<lsTokens, lsExpires, lsUser, lsState, cNow>>
              /\ Q.ret = BoolRet(/\ ~lsTokens.null
                                 /\ ~lsExpires.null
                                 /\ cNow < lsExpires.at)]_vars

\* the four slots of the client are empty
Erased ==
    /\ lsTokens = Null
    /\ lsExpires = Null
    /\ lsUser = Null
    /\ lsState = Null

\* C14: every logout() step leaves the stored TokenPair, its expiry, the
\* cached identity and the pending nonce erased and moves no call forward
\* (it sends nothing), so a second logout() changes nothing; and in the state
\* logout() leaves, isAuthenticated() returns false and getCurrentUser()
\* returns null at once, with no request to the identity or token endpoint.
C14_LogoutErasesEverything ==
    [][/\ Logout => (Erased' /\ UNCHANGED <<procs, cNow, authorizeUrl>>)
       /\ (Logout /\ Erased) =>
            UNCHANGED <<limiterVars, gateVars, storageVars, authorizeUrl, cNow, procs>>
       /\ \A p \in Procs :
            LET P == procs[p]
                Q == procs'[p]
            IN  (Erased /\ Startable(p) /\ Q # P) =>
                  /\ Q.op = "isAuthenticated" => Q.ret = BoolRet(FALSE)
                  /\ Q.op = "getCurrentUser" =>
                        /\ Q.pc = "done"
                        /\ Q.ret = UserRet(Null)
                        /\ Q.nUserinfo = 0 /\ Q.nToken = 0
                        /\ Erased']_vars

\* C14 witness: logout() ran while a call was waiting for the answer to a
\* request it had sent with the stored access token a1, and after a login()
\* had stored a nonce: the four slots are empty now
C14_Witness ==
    /\ Erased
    /\ ~authorizeUrl.null
    /\ \E p \in Procs :
          /\ Running(p, "authenticatedFetch")
          /\ procs[p].pc = "first"
          /\ procs[p].sent = "a1"

\* the callback's state parameter is not the nonce the last login() issued
\* (url is the authorize redirect of that login, Null before any login)
NotLastIssued(state, url) ==
    \/ state.null
    \/ url.null
    \/ state.s # url.state

\* C15: in every reachable state, a handleCallback() whose state parameter
\* is not the nonce issued by the last login() returns false in its first
\* step, without a token call, and leaves no TokenPair stored that was not
\* stored before.
C15_MismatchRejected ==
    [][\A p \in Procs :
        LET P == procs[p]
            Q == procs'[p]
        IN  (/\ Startable(p) /\ Q # P
             /\ Q.op = "handleCallback"
             /\ NotLastIssued(Q.cb.state, authorizeUrl)) =>
              /\ Q.pc = "done"
              /\ Q.ret = BoolRet(FALSE)
              /\ Q.nToken = 0
              /\ lsTokens' = lsTokens]_vars

\* C16: a handleCallback() whose URL carries an error parameter, or whose
\* state parameter differs from the stored nonce, returns false in its first
\* step: it sends no request to the token endpoint, the identity endpoint or
\* any url, and the stored TokenPair, expiry and identity are what they were.
C16_RejectedCallbackNoSideEffects ==
    [][\A p \in Procs :
        LET P == procs[p]
            Q == procs'[p]
        IN  (/\ Startable(p) /\ Q # P
             /\ Q.op = "handleCallback"
             /\ (~Q.cb.error.null \/ Q.cb.state # lsState)) =>
              /\ Q.pc = "done"
              /\ Q.ret = BoolRet(FALSE)
              /\ Q.nToken = 0 /\ Q.nUserinfo = 0 /\ Q.nUrl = 0
              /\ UNCHANGED <<lsTokens, lsExpires, lsUser>>]_vars

\* C16 witness: with a TokenPair, its expiry and an identity stored and n2
\* the pending nonce, a callback with a code and state n1 returned false and
\* the three slots still hold their values
C16_Witness ==
    \E p \in Procs :
      /\ Running(p, "handleCallback")
      /\ procs[p].pc = "done"
      /\ procs[p].ret = BoolRet(FALSE)
      /\ procs[p].cb = [code |-> Str("c1"), state |-> Str("n1"), error |-> Null]
      /\ procs[p].nonceAtCall = Str("n2")
      /\ procs[p].nToken = 0
      /\ lsTokens \in TokenBodies
      /\ ~lsExpires.null
      /\ lsUser \in ClientUsers

\* C17: the pending nonce is consumed by every handleCallback(): the call
\* reads and removes it before its first await, so whatever the callback
\* carries (a provider error, no code, a wrong state, a right state) and
\* however the call ends, no nonce is stored once its first step is done,
\* and a later callback with the same state finds nothing to match.
C17_NonceConsumedByEveryCallback ==
    [][\A p \in Procs :
        LET P == procs[p]
            Q == procs'[p]
        IN  (Startable(p) /\ Q # P /\ Q.op = "handleCallback") =>
              lsState' = Null]_vars

\* the callback carries a code, no error, and the state that is stored
ValidCallback(cb, storedState) ==
    /\ cb.error.null
    /\ ~cb.code.null
    /\ ~storedState.null
    /\ cb.state = storedState

\* what a handleCallback() does around its token exchange, as C18 and its
\* amendment both state it: a valid callback sends its code in one token
\* call, and no second exchange follows; the step that ends the exchange
\* either stores the endpoint's TokenPair with expiry = now + expires_in
\* (in milliseconds) and requests the identity with the new access token, or
\* returns false with the TokenPair, expiry and identity untouched; the call
\* returns a boolean.
CallbackExchange(p) ==
    LET P == procs[p]
        Q == procs'[p]
    IN  /\ (/\ Startable(p) /\ Q # P
             /\ Q.op = "handleCallback"
             /\ ValidCallback(Q.cb, lsState)) =>
              /\ Q.pc = "exchange"
              /\ Q.sent = Q.cb.code.s
              /\ Q.nToken = 1
              /\ UNCHANGED <<lsTokens, lsExpires, lsUser>>
        /\ (Running(p, "handleCallback") /\ P.pc = "exchange" /\ Q # P) =>
              IF Q.pc = "done"
              THEN /\ Q.ret = BoolRet(FALSE)
                   /\ UNCHANGED <<lsTokens, lsExpires, lsUser>>
              ELSE /\ lsTokens' \in TokenBodies
                   /\ lsExpires' = [null |-> FALSE,
                                    at |-> cNow + lsTokens'.expires_in * MsPerSecond]
                   /\ lsUser' = lsUser
                   /\ Q.pc = "userinfo"
                   /\ Q.sent = lsTokens'.access_token
                   /\ Q.nUserinfo = 1 /\ Q.nToken = 1
        /\ (Running(p, "handleCallback") /\ P.pc \notin {"idle", "done", "exchange"}) =>
              /\ Q.pc # "exchange"
              /\ Q.pc = "done" => Q.ret = BoolRet(TRUE)

C19_LoginStoresRedirectNonce ==
    /\ [][((\E nonce \in Nonces : Login(nonce)) =>
              (/\ ~lsState'.null
               /\ ~authorizeUrl'.null
               /\ authorizeUrl'.response_type = "code"
               /\ authorizeUrl'.state = lsState'.s
               /\ UNCHANGED <<lsTokens, lsExpires, lsUser, procs>>))
          /\ (authorizeUrl' # authorizeUrl =>
                \E nonce \in Nonces : Login(nonce))]_vars
    /\ [](~lsState.null => (~authorizeUrl.null /\ authorizeUrl.state = lsState.s))

\* C19 witness: a first login() stored n1 (a callback without a code saw it
\* and left it), a second login() redirected with n2, and n2 is the nonce
\* stored now
C19_Witness ==
    /\ lsState = Str("n2")
    /\ authorizeUrl = [null |-> FALSE, response_type |-> "code", state |-> "n2"]
    /\ \E p \in Procs :
          /\ Running(p, "handleCallback")
          /\ procs[p].nonceAtCall = Str("n1")

\* nothing of a session is stored: no TokenPair, no expiry, no identity
Anonymous ==
    /\ lsTokens = Null
    /\ lsExpires = Null
    /\ lsUser = Null

\* C31 as stated: a TokenPair is stored where none was only by the step that
\* ends a handleCallback() token exchange; and a refreshToken(),
\* getCurrentUser() or authenticatedFetch() called with nothing stored
\* returns at once (false, null, throws "Not authenticated") with no network
\* call and nothing stored.
C31_TokenPairOnlyFromCallback ==
    [][\A p \in Procs :
        LET P == procs[p]
            Q == procs'[p]
        IN  /\ (lsTokens.null /\ ~lsTokens'.null /\ Q # P) =>
                  (P.op = "handleCallback" /\ P.pc = "exchange")
            /\ (Anonymous /\ Startable(p) /\ Q # P
                   /\ Q.op \in {"refreshToken", "getCurrentUser", "authenticatedFetch"}) =>
                  /\ Q.pc = "done"
                  /\ Q.nToken = 0 /\ Q.nUserinfo = 0 /\ Q.nUrl = 0
                  /\ Anonymous'
                  /\ Q.op = "refreshToken" => Q.ret = BoolRet(FALSE)
                  /\ Q.op = "getCurrentUser" => Q.ret = UserRet(Null)
                  /\ Q.op = "authenticatedFetch" => Q.ret = ThrowRet("Not authenticated")]_vars

\* the part of C31 about calls made with nothing stored, on its own
C31_AnonymousCallsReturnAtOnce ==
    [][\A p \in Procs :
        LET P == procs[p]
            Q == procs'[p]
        IN  (Anonymous /\ Startable(p) /\ Q # P
               /\ Q.op \in {"refreshToken", "getCurrentUser", "authenticatedFetch"}) =>
              /\ Q.pc = "done"
              /\ Q.nToken = 0 /\ Q.nUserinfo = 0 /\ Q.nUrl = 0
              /\ Anonymous'
              /\ Q.op = "refreshToken" => Q.ret = BoolRet(FALSE)
              /\ Q.op = "getCurrentUser" => Q.ret = UserRet(Null)
              /\ Q.op = "authenticatedFetch" => Q.ret = ThrowRet("Not authenticated")]_vars

\* C32: once logout() has returned, and until a handleCallback() is started,
\* no TokenPair, expiry or identity is stored, whatever calls were awaiting a
\* network response when logout() ran.
C32_NothingStoredAfterLogout ==
    loggedOut => Anonymous

C34_NoIdentityOfEarlierLogin ==
    [][\A p \in Procs :
        LET P == procs[p]
            Q == procs'[p]
        IN  (/\ Running(p, "handleCallback")
             /\ P.pc \notin {"idle", "done"}
             /\ Q.pc = "done"
             /\ Q.ret = BoolRet(TRUE)) =>
              \/ lsUser' = Null
              \/ \E resp \in UserinfoResponses :
                    /\ UserinfoResponse(p, resp)
                    /\ resp.kind = "http" /\ resp.ok
                    /\ resp.body \in ClientUsers
                    /\ lsUser' = resp.body]_vars

\* the call p invokes refreshToken() in this step because the response to its
\* request was a rejection: authenticatedFetch's first request got 401, or
\* getCurrentUser's identity request was not ok
ObservesRejection(p) ==
    /\ procs[p].pc \in {"first", "userinfo"}
    /\ procs[p].op \in {"authenticatedFetch", "getCurrentUser"}
    /\ procs'[p].nRefresh = procs[p].nRefresh + 1

\* the step gives authenticatedFetch of p a 401 for its first request
FirstRequestRejected(p) ==
    /\ procs[p].pc = "first"
    /\ procs'[p] # procs[p]
    /\ procs'[p].response.kind = "http"
    /\ procs'[p].response.status = 401

\* C28: refresh attempts are not coalesced. A call that observes a rejected
\* access token while a refresh token is stored sends its own request to the
\* token endpoint with the stored refresh token, also when another call
\* already has a refresh with that same token in flight, and that other
\* call's request stays in flight.
C28_RefreshNotCoalesced ==
    [][\A p \in StormProcs :
          LET P == procs[p]
              Q == procs'[p] IN
          /\ (FirstRequestRejected(p) /\ HasRefreshToken(lsTokens)) => ObservesRejection(p)
          /\ (ObservesRejection(p) /\ HasRefreshToken(lsTokens)) =>
                /\ Q.pc = "refresh"
                /\ Q.sent = lsTokens.refresh_token
                /\ Q.nToken = P.nToken + 1
                /\ \A q \in StormProcs \ {p} :
                      procs[q].pc = "refresh" =>
                         /\ procs'[q] = procs[q]
                         /\ procs[q].sent = lsTokens.refresh_token
                               => Q.sent = procs'[q].sent]_vars

\* C28 witness: an authenticatedFetch and a getCurrentUser both saw their
\* access token rejected and both have a refresh in flight with the stored
\* refresh token
C28_Witness ==
    /\ procs["p1"].op = "authenticatedFetch"
    /\ procs["p1"].response.kind = "http"
    /\ procs["p1"].response.status = 401
    /\ procs["p2"].op = "getCurrentUser"
    /\ \A p \in StormProcs :
          /\ procs[p].pc = "refresh"
          /\ procs[p].nToken = 1
          /\ procs[p].sent = lsTokens.refresh_token

(***************************************************************************)
(* Example worker: claims                                                  *)
(***************************************************************************)
\* the worker has returned a Response for the request gReq
WorkerDone == gPc = "done" /\ gReq.mode = "worker"

\* the Response carries a header of that name
HasHeader(response, name) == \E h \in response.headers : h[1] = name

\* C20: every Response the worker returns (from a downstream handler, a 401
\* or 403 of a handler wrapper, the limiter's 429, a not-found, the OPTIONS
\* preflight) carries Access-Control-Allow-Origin, -Methods and -Headers.
C20_EveryResponseHasCors ==
    WorkerDone =>
        /\ HasHeader(gOut, "Access-Control-Allow-Origin")
        /\ HasHeader(gOut, "Access-Control-Allow-Methods")
        /\ HasHeader(gOut, "Access-Control-Allow-Headers")

\* C21: every inbound request, an OPTIONS preflight included, is counted by
\* the limiter before the preflight short-circuit: the step that takes a
\* request in leaves the window map as check() on the request's key leaves
\* it, and a request check() denies is answered 429 whatever its method.
C21_LimiterBeforePreflight ==
    [][(gPc = "idle" /\ gPc' # "idle") =>
          LET c == check(requests, gReq'.key, rlNow) IN
            /\ requests' = c.map
            /\ ~c.ret => (gPc' = "done" /\ gOut'.status = 429)]_vars

\* the least number of whole seconds that covers ms milliseconds
WholeSeconds(ms) ==
    CHOOSE n \in 0..ms :
        /\ n * MsPerSecond >= ms
        /\ n = 0 \/ (n - 1) * MsPerSecond < ms

\* the key's window is open and full at time now: check() denies
Denied(reqs, key, now) ==
    /\ key \in DOMAIN reqs
    /\ now <= reqs[key].resetTime
    /\ reqs[key].count >= limit

\* C22: a request that reaches the limiter while its key's window is full
\* is answered in the same step with status 429, a JSON body with an error
\* text, and a Retry-After header holding the time left to the window's
\* reset rounded up to whole seconds; no identity call is made and the
\* response is not one of the routing (no gate, no downstream handler). A
\* request the limiter admits is never answered 429: it goes on to the
\* routing.
C22_DeniedRequestGets429 ==
    [][(gPc = "idle" /\ gPc' # "idle" /\ gReq'.method # "OPTIONS") =>
          IF Denied(requests, gReq'.key, rlNow)
          THEN LET secs == WholeSeconds(requests[gReq'.key].resetTime - rlNow) IN
               /\ gPc' = "done"
               /\ gCalls' = 0
               /\ gOut'.status = 429
               /\ gOut'.body.error = "Rate limit exceeded"
               /\ JsonType \in gOut'.headers
               /\ \A h \in gOut'.headers : h[1] = "Retry-After" => h[2] = secs
               /\ HasHeader(gOut', "Retry-After")
               /\ requests' = requests
          ELSE /\ gPc' = "done" =>
                    gOut' = route(gReq'.path, gReq'.header, NoResp)
               /\ gPc' = "validating" => gCalls' = 1]_vars

\* C22 witness: a GET for the protected profile that carries a token was
\* denied by the limiter: 429 with Retry-After 1, no identity call
C22_Witness ==
    /\ WorkerDone
    /\ gReq.method = "GET"
    /\ gReq.path = "/api/protected/profile"
    /\ ~gReq.header.null
    /\ gOut.status = 429
    /\ <<"Retry-After", 1>> \in gOut.headers
    /\ gCalls = 0

(***************************************************************************)
(* hasPermission: claims                                                   *)
(***************************************************************************)
\* the rank of the fixed table: admin 3, vendor 2, customer 1, any other
\* string 0
Rank(role) ==
    CASE role = "admin" -> 3
      [] role = "vendor" -> 2
      [] role = "customer" -> 1
      [] OTHER -> 0

\* C24: for every pair of role strings hasPermission(userRole, requiredRole)
\* is true exactly when rank(userRole) >= rank(requiredRole), every string
\* outside the table having rank 0.
C24_HasPermissionIsRankOrder ==
    (gPc = "done" /\ gReq.mode = "hasPermission") =>
        (gOut.ret <=> Rank(gReq.userRole) >= Rank(gReq.requiredRole))

\* C39: hasPermission grants no required role that is missing from the
\* hierarchy table: for a requiredRole other than admin, vendor and customer
\* it returns false whatever the userRole is.
C39_UnknownRequiredRoleDenied ==
    (/\ gPc = "done"
     /\ gReq.mode = "hasPermission"
     /\ gReq.requiredRole \notin {"admin", "vendor", "customer"})
       => (~gOut.threw /\ gOut.ret = FALSE)

====
